---- MODULE Spec2Model ----
(***************************************************************************)
(* Model of github.com/akualab/graph: the graph store (graph.go), its gob  *)
(* based Clone/Merge (graph.go, io.go) and the token-passing Viterbi       *)
(* decoder (viterbi.go).                                                   *)
(*                                                                         *)
(* Node objects live in a heap indexed by their address; a graph is its    *)
(* nodes map, from key to address.  Successor maps are keyed by address,   *)
(* as in the source (map[*Node]float64).  An address is written            *)
(* <<graph, key, n>>: the n-th live object made for that key by that       *)
(* graph.  Objects that no graph reaches any more are collected, and       *)
(* their addresses reused.                                                 *)
(***************************************************************************)
EXTENDS Integers, Sequences, FiniteSets, TLC

VARIABLES heap, graphs, dec, astar, last

vars == <<heap, graphs, dec, astar, last>>

\* ---------------------------------------------------------------- bounds
\* Number of live Node objects in a run of the graph store.
MaxNodes == 3
\* Number of live Node objects after a Merge.
MaxHeap == 4
\* Denominator of the weights Normalize is applied to.
MaxDen == 1

\* ---------------------------------------------------------------- inputs
Keys == {"a", "b"}
Weights == {1, 2}
Values == {[kind |-> "plain", v |-> 10]}
GraphIds == {"g", "g1", "g2"}

\* The nil *Node.
NULL == << >>

\* ------------------------------------------------------- Go map helpers
EmptyMap == [x \in {} |-> 0]

\* m[k] = v
Put(m, k, v) == [x \in (DOMAIN m) \cup {k} |-> IF x = k THEN v ELSE m[x]]

\* delete(m, k)
Del(m, k) == [x \in (DOMAIN m) \ {k} |-> m[x]]

\* The orders in which a range loop may visit the set S.
Orders(S) == {s \in [1..Cardinality(S) -> S] : \A i, j \in 1..Cardinality(S) : s[i] = s[j] => i = j}

\* ------------------------------------------------------------ the store
\* type Node struct { key; value; successors map[*Node]float64 }
NewNode(key, value) == [key |-> key, value |-> value, successors |-> EmptyMap]

\* g.get(key): g.nodes[key], nil when absent
get(g, key) == IF key \in DOMAIN graphs[g] THEN graphs[g][key] ELSE NULL

\* IsConnected matching the successor by its key instead of its identity.
IsConnectedByKey(h, n, from, to) ==
    IF from \notin DOMAIN n THEN <<FALSE, 0>>
    ELSE IF to \notin DOMAIN n THEN <<FALSE, 0>>
    ELSE LET hits == {s \in DOMAIN h[n[from]].successors : h[s].key = to}
         IN IF hits # {} THEN <<TRUE, h[n[from]].successors[CHOOSE s \in hits : TRUE]>>
            ELSE <<FALSE, 0>>

\* g.IsConnected(from, to) in heap h and nodes map n: <<exists, weight>>
IsConnectedIn(h, n, from, to) ==
    IF from \notin DOMAIN n THEN <<FALSE, 0>>
    ELSE IF to \notin DOMAIN n THEN <<FALSE, 0>>
    ELSE IF n[to] \in DOMAIN h[n[from]].successors
         THEN <<TRUE, h[n[from]].successors[n[to]]>>
         ELSE <<FALSE, 0>>

IsConnected(g, from, to) == IsConnectedIn(heap, graphs[g], from, to)

\* &Node{...} made by graph g for key: an address not in use.
Alloc(h, g, key) ==
    LET n == CHOOSE i \in 0..Cardinality(DOMAIN h) :
                 <<g, key, i>> \notin DOMAIN h /\ \A j \in 0..(i - 1) : <<g, key, j>> \in DOMAIN h
    IN <<g, key, n>>

\* The nodes a set of roots can reach through successor maps.
RECURSIVE Reach(_, _)
Reach(h, roots) ==
    LET more == roots \cup UNION {DOMAIN h[p].successors : p \in roots}
    IN IF more = roots THEN roots ELSE Reach(h, more)

\* The garbage collector: objects no graph can reach are gone.
Collect(h, gs) ==
    LET live == Reach(h, UNION {{gs[g][k] : k \in DOMAIN gs[g]} : g \in DOMAIN gs})
    IN [p \in live |-> h[p]]

\* The nil *Token and the nil *Decoder.
NoToken == << >>
NoDecoder == [made |-> FALSE]

\* no shortest-path search has been started
NoSearch == [pc |-> "idle"]

\* The record of the call just made: its name, its boolean result, its error
\* result ("" for a call that returns no error value), the count its error
\* message carries, the token it returned and the observations it was given.
Call(op, ret, err) ==
    [op |-> op, ret |-> ret, err |-> err, found |-> 0, token |-> NoToken,
     obs |-> << >>, arg |-> << >>]

Init ==
    /\ heap = EmptyMap
    /\ graphs = [g \in GraphIds |-> EmptyMap]
    /\ dec = NoDecoder
    /\ astar = NoSearch
    /\ last = Call("New", TRUE, "")

\* Set that registers a new node for the key in every case.
SetReplacesNode(g, key, value) ==
    /\ Cardinality(DOMAIN heap) < MaxNodes
    /\ \E h \in {Put(heap, Alloc(heap, g, key), NewNode(key, value))} :
       \E n \in {[graphs EXCEPT ![g] = Put(@, key, Alloc(heap, g, key))]} :
           /\ heap' = Collect(h, n)
           /\ graphs' = n
    /\ last' = Call("Set", Alloc(heap, g, key), "")

\* g.Set(key, value)
Set(g, key, value) ==
    LET v == get(g, key) IN
    IF v = NULL
    THEN /\ Cardinality(DOMAIN heap) < MaxNodes
         /\ heap' = Put(heap, Alloc(heap, g, key), NewNode(key, value))
         /\ graphs' = [graphs EXCEPT ![g] = Put(@, key, Alloc(heap, g, key))]
         /\ last' = Call("Set", Alloc(heap, g, key), "")
    ELSE /\ heap' = [heap EXCEPT ![v].value = value]
         /\ UNCHANGED graphs
         /\ last' = Call("Set", v, "")

\* v.successors[otherV] = weight for the nodes of the keys from and to in the
\* nodes map n: the heap after a Connect that succeeds.
ConnectIn(h, n, from, to, weight) ==
    [h EXCEPT ![n[from]].successors = Put(@, n[to], weight)]

\* Connect that keeps the weight of an arc that exists already.
ConnectKeepsWeight(g, from, to, weight) ==
    LET v == get(g, from)
        otherV == get(g, to) IN
    IF v = NULL \/ otherV = NULL
    THEN /\ UNCHANGED <<heap, graphs>>
         /\ last' = Call("Connect", FALSE, "")
    ELSE /\ heap' = IF otherV \in DOMAIN heap[v].successors THEN heap
                    ELSE [heap EXCEPT ![v].successors = Put(@, otherV, weight)]
         /\ UNCHANGED graphs
         /\ last' = Call("Connect", TRUE, "")

\* Connect that checks the key "from" only and creates the missing target.
ConnectCreatesTarget(g, from, to, weight) ==
    LET v == get(g, from)
        otherV == get(g, to) IN
    IF v = NULL
    THEN /\ UNCHANGED <<heap, graphs>>
         /\ last' = Call("Connect", FALSE, "")
    ELSE IF otherV = NULL
    THEN /\ Cardinality(DOMAIN heap) < MaxNodes
         /\ heap' = [Put(heap, Alloc(heap, g, to), NewNode(to, CHOOSE value \in Values : TRUE)) EXCEPT ![v].successors = Put(@, Alloc(heap, g, to), weight)]
         /\ graphs' = [graphs EXCEPT ![g] = Put(@, to, Alloc(heap, g, to))]
         /\ last' = Call("Connect", FALSE, "")
    ELSE /\ heap' = [heap EXCEPT ![v].successors = Put(@, otherV, weight)]
         /\ UNCHANGED graphs
         /\ last' = Call("Connect", TRUE, "")

\* g.Connect(from, to, weight)
Connect(g, from, to, weight) ==
    LET v == get(g, from)
        otherV == get(g, to) IN
    IF v = NULL \/ otherV = NULL
    THEN /\ UNCHANGED <<heap, graphs>>
         /\ last' = Call("Connect", FALSE, "")
    ELSE /\ heap' = ConnectIn(heap, graphs[g], from, to, weight)
         /\ UNCHANGED graphs
         /\ last' = Call("Connect", TRUE, "")

\* Disconnect that removes the arc back from "to" as well.
DisconnectBothWays(g, from, to) ==
    LET v == get(g, from)
        otherV == get(g, to) IN
    IF v = NULL \/ otherV = NULL
    THEN /\ UNCHANGED <<heap, graphs>>
         /\ last' = Call("Disconnect", FALSE, "")
    ELSE /\ heap' = Collect([heap EXCEPT ![v].successors = Del(@, otherV),
                                         ![otherV].successors = Del(@, v)], graphs)
         /\ UNCHANGED graphs
         /\ last' = Call("Disconnect", TRUE, "")

\* g.Disconnect(from, to)
Disconnect(g, from, to) ==
    LET v == get(g, from)
        otherV == get(g, to) IN
    IF v = NULL \/ otherV = NULL
    THEN /\ UNCHANGED <<heap, graphs>>
         /\ last' = Call("Disconnect", FALSE, "")
    ELSE /\ heap' = Collect([heap EXCEPT ![v].successors = Del(@, otherV)], graphs)
         /\ UNCHANGED graphs
         /\ last' = Call("Disconnect", TRUE, "")

\* The inner loop of Delete over otherNode.successors, visiting the entries
\* in the order inner: an entry removed before it is reached is not produced.
RECURSIVE DeleteInner(_, _, _, _, _)
DeleteInner(h, other, v, inner, i) ==
    IF i > Len(inner) THEN h
    ELSE LET successor == inner[i] IN
         IF successor \in DOMAIN h[other].successors
         THEN DeleteInner([h EXCEPT ![successor].successors = Del(@, v)], other, v, inner, i + 1)
         ELSE DeleteInner(h, other, v, inner, i + 1)

\* An order of the set S (any one: used where the order has no effect).
SeqOf(S) == CHOOSE s \in Orders(S) : TRUE

\* The outer loop of Delete over the remaining g.nodes, in the order outer.
\* Visiting successor s only edits s.successors, so the order of a range over
\* otherNode.successors shows only in whether v is produced before or after
\* the entries whose visit removes v from the map being ranged: vFirst.
RECURSIVE DeleteOuter(_, _, _, _, _)
DeleteOuter(h, v, outer, vFirst, i) ==
    IF i > Len(outer) THEN h
    ELSE LET other == outer[i]
             succs == DOMAIN h[other].successors
             rest == SeqOf(succs \ {v})
             inner == IF v \notin succs THEN rest
                      ELSE IF vFirst THEN <<v>> \o rest ELSE rest \o <<v>>
         IN DeleteOuter(DeleteInner(h, other, v, inner, 1), v, outer, vFirst, i + 1)

\* g.Delete(key)
Delete(g, key) ==
    LET v == get(g, key) IN
    IF v = NULL
    THEN /\ UNCHANGED <<heap, graphs>>
         /\ last' = Call("Delete", FALSE, "")
    ELSE LET remaining == Del(graphs[g], key)
             others == {remaining[k] : k \in DOMAIN remaining}
         IN /\ graphs' = [graphs EXCEPT ![g] = remaining]
            /\ \E outer \in Orders(others), vFirst \in BOOLEAN :
                   heap' = Collect(DeleteOuter(heap, v, outer, vFirst, 1), graphs')
            /\ last' = Call("Delete", TRUE, "")

SetG == \E key \in Keys, value \in Values : Set("g", key, value) /\ UNCHANGED <<dec, astar>>
ConnectG == \E from, to \in Keys, weight \in Weights : Connect("g", from, to, weight) /\ UNCHANGED <<dec, astar>>
DisconnectG == \E from, to \in Keys : Disconnect("g", from, to) /\ UNCHANGED <<dec, astar>>
DeleteG == \E key \in Keys : Delete("g", key) /\ UNCHANGED <<dec, astar>>

Next == SetG \/ ConnectG \/ DisconnectG \/ DeleteG

Spec == Init /\ [][Next]_vars

\* The store with two values to set and one weight to connect with.
TwoValues == Values \cup {[kind |-> "plain", v |-> 20]}
SetV == \E key \in Keys, value \in TwoValues : Set("g", key, value) /\ UNCHANGED <<dec, astar>>
ConnectV == \E from, to \in Keys : Connect("g", from, to, 1) /\ UNCHANGED <<dec, astar>>
DisconnectV == \E from, to \in Keys : Disconnect("g", from, to) /\ UNCHANGED <<dec, astar>>
DeleteV == \E key \in Keys : Delete("g", key) /\ UNCHANGED <<dec, astar>>

NextValues == SetV \/ ConnectV \/ DisconnectV \/ DeleteV

SpecValues == Init /\ [][NextValues]_vars

\* ------------------------------------------------------- Clone and Merge
\* The functions on D that take at d a value of R(d).
Choices(D, R(_)) == {f \in [D -> UNION {R(d) : d \in D}] : \A d \in D : f[d] \in R(d)}

\* GraphIO.add(v): what Arcs[v.key] can hold after the loop over v.successors.
\* Two successors with one key write the same entry, the later one last.
add(h, v) ==
    LET succ == h[v].successors
        ks == {h[s].key : s \in DOMAIN succ}
    IN Choices(ks, LAMBDA k : {succ[s] : s \in {t \in DOMAIN succ : h[t].key = k}})

\* g.GobEncode(): the GraphIO values the encoder can send for nodes map n.
GobEncode(h, n) ==
    {[Nodes |-> [k \in DOMAIN n |-> h[n[k]].value], Arcs |-> arcs] :
        arcs \in Choices(DOMAIN n, LAMBDA k : add(h, n[k]))}

\* The loop of GobDecode that calls g.Set(key, value) for every gGob.Nodes
\* entry on the graph made by New(): <<heap, nodes map>>.
RECURSIVE SetAll(_, _, _, _, _)
SetAll(h, g, n, Nodes, ks) ==
    IF ks = << >> THEN <<h, n>>
    ELSE SetAll(Put(h, Alloc(h, g, Head(ks)), NewNode(Head(ks), Nodes[Head(ks)])), g,
                Put(n, Head(ks), Alloc(h, g, Head(ks))), Nodes, Tail(ks))

\* g.GobDecode(b) into a graph made by New(): the nodes are set, then every
\* arc is connected; a Connect that returns false ends it with an error.
GobDecode(h, g, gGob) ==
    LET set == SetAll(h, g, EmptyMap, gGob.Nodes, SeqOf(DOMAIN gGob.Nodes))
        n == set[2]
        bad == \E key \in DOMAIN gGob.Arcs : \E otherKey \in DOMAIN gGob.Arcs[key] : otherKey \notin DOMAIN n
        connected == [p \in DOMAIN set[1] |->
                        IF p \in {n[k] : k \in DOMAIN n}
                        THEN [set[1][p] EXCEPT !.successors =
                                 LET arcs == gGob.Arcs[set[1][p].key]
                                 IN [q \in {n[k] : k \in DOMAIN arcs \cap DOMAIN n} |->
                                        arcs[set[1][q].key]]]
                        ELSE set[1][p]]
    IN [err |-> IF bad THEN "invalid arc endpoints" ELSE "nil", heap |-> connected, nodes |-> n]

\* g.Clone(): the graphs that encoding g and decoding into New(), named
\* newG, can give, each with its error.
Clone(g, newG) == {GobDecode(heap, newG, gGob) : gGob \in GobEncode(heap, graphs[g])}

\* A duplicate check that compares every input with the receiver only.
RECURSIVE HasDuplicateWithReceiver(_, _, _)
HasDuplicateWithReceiver(tmpMap, gs, i) ==
    IF i > Len(gs) THEN FALSE
    ELSE IF DOMAIN graphs[gs[i]] \cap tmpMap # {} THEN TRUE
    ELSE HasDuplicateWithReceiver(tmpMap, gs, i + 1)

\* The duplicate check of Merge: tmpMap holds the keys seen so far.
RECURSIVE HasDuplicate(_, _, _)
HasDuplicate(tmpMap, gs, i) ==
    IF i > Len(gs) THEN FALSE
    ELSE IF DOMAIN graphs[gs[i]] \cap tmpMap # {} THEN TRUE
    ELSE HasDuplicate(tmpMap \cup DOMAIN graphs[gs[i]], gs, i + 1)

\* The merging loop of Merge: each input is cloned (gg.Clone(): encode, then
\* decode into New()) and the nodes of the clone are put in the receiver; a
\* Clone error returns at once.
RECURSIVE MergeLoop(_, _, _, _, _, _)
MergeLoop(h, g, recv, gs, enc, i) ==
    IF i > Len(gs) THEN [err |-> "nil", heap |-> h, nodes |-> recv]
    ELSE LET graph == GobDecode(h, g, enc[gs[i]]) IN
         IF graph.err # "nil" THEN [err |-> graph.err, heap |-> h, nodes |-> recv]
         ELSE MergeLoop(graph.heap, g,
                        [k \in DOMAIN recv \cup DOMAIN graph.nodes |->
                            IF k \in DOMAIN graph.nodes THEN graph.nodes[k] ELSE recv[k]],
                        gs, enc, i + 1)

\* g.Merge(graphs...)
Merge(g, gs) ==
    IF HasDuplicate(DOMAIN graphs[g], gs, 1)
    THEN /\ UNCHANGED <<heap, graphs>>
         /\ last' = Call("Merge", FALSE, "ErrDuplicateKey")
    ELSE \E enc \in Choices({gs[i] : i \in 1..Len(gs)}, LAMBDA x : GobEncode(heap, graphs[x])) :
            \E r \in {MergeLoop(heap, g, graphs[g], gs, enc, 1)} :
            /\ graphs' = [graphs EXCEPT ![g] = r.nodes]
            /\ heap' = Collect(r.heap, graphs')
            /\ Cardinality(DOMAIN heap') <= MaxHeap
            /\ last' = Call("Merge", r.err = "nil", r.err)

\* The argument lists of Merge: one or two graphs other than the receiver.
Inputs == {"g1", "g2"}
InputLists == {<<x>> : x \in Inputs} \cup {<<x, y>> : x \in Inputs, y \in Inputs}

\* The keys used in the calls on each graph: the receiver and the first input
\* are built with one key each, the second input with both.
KeysOf(g) == IF g = "g" THEN {"b"} ELSE IF g = "g1" THEN {"a"} ELSE Keys

\* The arcs made in the receiver weigh 1 and those made in an input 2, so an
\* arc of the receiver shows by its weight where it was made.
WeightOf(g) == IF g = "g" THEN 1 ELSE 2

SetM == \E g \in GraphIds : \E key \in KeysOf(g), value \in Values : Set(g, key, value) /\ UNCHANGED <<dec, astar>>
ConnectM == \E g \in GraphIds : \E from, to \in KeysOf(g) : Connect(g, from, to, WeightOf(g)) /\ UNCHANGED <<dec, astar>>
DisconnectM == \E g \in GraphIds : \E from, to \in KeysOf(g) : Disconnect(g, from, to) /\ UNCHANGED <<dec, astar>>
DeleteM == \E g \in GraphIds : \E key \in KeysOf(g) : Delete(g, key) /\ UNCHANGED <<dec, astar>>
MergeM == \E gs \in InputLists : Merge("g", gs) /\ UNCHANGED <<dec, astar>>

NextMerge == SetM \/ ConnectM \/ DisconnectM \/ DeleteM \/ MergeM

SpecMerge == Init /\ [][NextMerge]_vars

\* ------------------------------------------------------ Viterbi decoder
\* Length of the observation sequences given to Decode.
MaxObs == 2

\* math.Inf(-1)
NegInf == -1000000

\* float64 addition, with -Inf absorbing.
Plus(a, b) == IF a = NegInf \/ b = NegInf THEN NegInf ELSE a + b

\* vvalue{null, f}: a node value that implements Viterbier.  The scoring
\* function is a row of scores, indexed by the observation.
vvalue(null, f) == [kind |-> "vvalue", null |-> null, f |-> f]

\* value.(Viterbier).Score(o)
Score(value, o) == value.f[o + 1]

\* The rows of scores of the nodes; the final state scores 0.
scores(key) ==
    CASE key = "s0" -> <<-1, -2, -1, -3>>
      [] key = "s1" -> <<-2, -1, -3, -1>>
      [] key = "s2" -> <<-1, -3, -2, -2>>
      [] key = "s3" -> <<-3, -1, -1, -2>>
      [] OTHER -> <<0, 0, 0, 0>>

\* Keys of the small graphs, and the keys of the chain.
VKeys == {"s0", "s1", "s2"}
ChainKeys == {"s0", "s1", "s2", "s3", "s4"}
KeyIndex(key) == CHOOSE i \in 0..4 : key = <<"s0", "s1", "s2", "s3", "s4">>[i + 1]

\* Arc weights: log-domain (negative, sgn = -1) or linear-domain (positive).
VWeight(from, to, sgn) ==
    sgn * (IF from = to THEN 1 ELSE 1 + ((KeyIndex(from) + 2 * KeyIndex(to)) % 3))

\* The graph made by g.Set(key, ...) for every key and g.Connect(from, to,
\* weight) for every arc: nulls are the keys of null nodes, plain the keys
\* whose value does not implement Viterbier.
MakeHeap(keys, nulls, plain, arcs, sgn) ==
    [p \in {<<"g", k, 0>> : k \in keys} |->
        [key |-> p[2],
         value |-> IF p[2] \in plain THEN CHOOSE value \in Values : TRUE
                   ELSE vvalue(p[2] \in nulls, scores(p[2])),
         successors |-> [q \in {<<"g", k, 0>> : k \in {t \in keys : <<p[2], t>> \in arcs}} |->
                            VWeight(p[2], q[2], sgn)]]]

MakeNodes(keys) == [g \in GraphIds |-> IF g = "g" THEN [k \in keys |-> <<"g", k, 0>>] ELSE EmptyMap]

\* s0(null) -> s1 -> s2 -> s3 -> s4(null), with self-loops on s1, s2, s3.
ChainArcs ==
    {<<"s0", "s1">>, <<"s1", "s1">>, <<"s1", "s2">>, <<"s2", "s2">>,
     <<"s2", "s3">>, <<"s3", "s3">>, <<"s3", "s4">>}
ChainHeap == MakeHeap(ChainKeys, {"s0", "s4"}, {}, ChainArcs, -1)
ChainObs == <<0, 1, 2, 3>>

\* The chain with a second null node after the start:
\* s0(null) -> s1(null) -> s2 -> s3 -> s4(null), self-loops on s2, s3.
NullsArcs ==
    {<<"s0", "s1">>, <<"s1", "s2">>, <<"s2", "s2">>,
     <<"s2", "s3">>, <<"s3", "s3">>, <<"s3", "s4">>}
NullsHeap == MakeHeap(ChainKeys, {"s0", "s1", "s4"}, {}, NullsArcs, -1)

\* The observation sequences: indices into the rows of scores, the runs of
\* at most MaxObs observations of the four and the four together.
ObsSeqs ==
    {SubSeq(ChainObs, p[1], p[1] + p[2] - 1) :
        p \in {q \in (1..Len(ChainObs)) \X (0..MaxObs) : q[1] + q[2] - 1 <= Len(ChainObs)}}
    \cup {ChainObs}

InitViterbi ==
    /\ \/ \E arcs \in SUBSET (VKeys \X VKeys), nulls \in SUBSET VKeys,
             plain \in {{}, {"s1"}}, sgn \in {-1, 1} :
              heap = MakeHeap(VKeys, nulls, plain, arcs, sgn)
       \/ heap = ChainHeap
       \/ heap = NullsHeap
    /\ graphs = MakeNodes({p[2] : p \in DOMAIN heap})
    /\ dec = NoDecoder
    /\ astar = NoSearch
    /\ last = Call("New", TRUE, "")

\* g.GetAll(), as a set
GetAll(g) == {graphs[g][k] : k \in DOMAIN graphs[g]}

\* g.Predecessors(node): the nodes of g that hold an arc to node
Predecessors(g, node) == {n \in GetAll(g) : node \in DOMAIN heap[n].successors}

\* g.StartNodes(): the nodes of g with no predecessors
StartNodes(g) == {node \in GetAll(g) : Cardinality(Predecessors(g, node)) = 0}

\* g.EndNodes(): the nodes of g with no successors
EndNodes(g) == {node \in GetAll(g) : Cardinality(DOMAIN heap[node].successors) = 0}

\* _, ok := v.value.(Viterbier)
IsViterbier(value) == value.kind = "vvalue"

\* checkViterbier that accepts every value.
checkViterbierAny(g) == TRUE

\* g.checkViterbier() = nil
checkViterbier(g) == \A v \in GetAll(g) : IsViterbier(heap[v].value)

NewDecoder(g) ==
    LET starts == StartNodes(g)
        ends == EndNodes(g)
    IN /\ UNCHANGED <<heap, graphs>>
       /\ IF Cardinality(starts) # 1
          THEN /\ dec' = NoDecoder
               /\ last' = [Call("NewDecoder", FALSE, "start") EXCEPT !.found = Cardinality(starts)]
          ELSE IF Cardinality(ends) # 1
          THEN /\ dec' = NoDecoder
               /\ last' = [Call("NewDecoder", FALSE, "end") EXCEPT !.found = Cardinality(ends)]
          ELSE IF ~checkViterbier(g)
          THEN /\ dec' = NoDecoder
               /\ last' = Call("NewDecoder", FALSE, "viterbier")
          ELSE /\ dec' = [made |-> TRUE, graph |-> g, start |-> CHOOSE n \in starts : TRUE,
                          end |-> CHOOSE n \in ends : TRUE, active |-> << >>]
               /\ last' = Call("NewDecoder", TRUE, "nil")

\* &Token{Score, Node, BT: prev, Index}.  A token is written as the chain
\* of its back pointers, oldest first: its own fields are the last element
\* and BT is the chain without it.
Token(score, node, prev, idx) == Append(prev, [Score |-> score, Node |-> node, Index |-> idx])
TScore(t) == t[Len(t)].Score
TNode(t) == t[Len(t)].Node
TIndex(t) == t[Len(t)].Index
BT(t) == SubSeq(t, 1, Len(t) - 1)

\* The order in which a range loop visits the set S, under the order ord of
\* all the nodes.
Range(ord, S) == SelectSeq(ord, LAMBDA n : n \in S)

\* d.createToken(prev, node, idx, score): the new token and d.hyps after it
createToken(hyps, prev, node, idx, score) ==
    LET nt == Token(score, node, prev, idx)
    IN [nt |-> nt,
        hyps |-> IF ~heap[node].value.null
                 THEN Put(hyps, node, (IF node \in DOMAIN hyps THEN hyps[node] ELSE << >>) \o <<nt>>)
                 ELSE hyps]

\* d.pass(t, idx, o): d.hyps after the call.  passRange is its loop over
\* t.Node.successors, from the i-th successor on.
RECURSIVE pass(_, _, _, _, _, _)
RECURSIVE passRange(_, _, _, _, _, _, _, _)
RECURSIVE passRangeNoEmission(_, _, _, _, _, _, _, _)
\* A loop of pass that leaves the score of the observation out.
passRangeNoEmission(d, ord, hyps, t, idx, o, succs, i) ==
    IF i > Len(succs) THEN hyps
    ELSE LET node == succs[i]
             w == heap[TNode(t)].successors[node]
             val == heap[node].value
         IN IF node = d.end
            THEN LET c == createToken(hyps, t, node, idx, NegInf)
                 IN passRangeNoEmission(d, ord, pass(d, ord, c.hyps, c.nt, idx, o), t, idx, o, succs, i + 1)
            ELSE LET c == createToken(hyps, t, node, idx, Plus(TScore(t), w))
                 IN IF val.null
                    THEN passRangeNoEmission(d, ord, pass(d, ord, c.hyps, c.nt, idx, o), t, idx, o, succs, i + 1)
                    ELSE passRangeNoEmission(d, ord, c.hyps, t, idx, o, succs, i + 1)

passRange(d, ord, hyps, t, idx, o, succs, i) ==
    IF i > Len(succs) THEN hyps
    ELSE LET node == succs[i]
             w == heap[TNode(t)].successors[node]
             val == heap[node].value
         IN IF node = d.end
            THEN LET c == createToken(hyps, t, node, idx, NegInf)
                 IN passRange(d, ord, pass(d, ord, c.hyps, c.nt, idx, o), t, idx, o, succs, i + 1)
            ELSE IF val.null
            THEN LET c == createToken(hyps, t, node, idx, Plus(TScore(t), w))
                 IN passRange(d, ord, pass(d, ord, c.hyps, c.nt, idx, o), t, idx, o, succs, i + 1)
            ELSE LET c == createToken(hyps, t, node, idx, Plus(Plus(TScore(t), w), Score(val, o)))
                 IN passRange(d, ord, c.hyps, t, idx, o, succs, i + 1)

pass(d, ord, hyps, t, idx, o) ==
    passRange(d, ord, hyps, t, idx, o, Range(ord, DOMAIN heap[TNode(t)].successors), 1)

\* The loop of maxScore(tokens), from the i-th token on.
RECURSIVE maxScoreRange(_, _, _, _)
maxScoreRange(tokens, i, best, max) ==
    IF i > Len(tokens) THEN best
    ELSE IF TScore(tokens[i]) > max
         THEN maxScoreRange(tokens, i + 1, tokens[i], TScore(tokens[i]))
         ELSE maxScoreRange(tokens, i + 1, best, max)

maxScore(tokens) == maxScoreRange(tokens, 1, NoToken, NegInf)

\* The loop of propagate over d.active.
RECURSIVE passAll(_, _, _, _, _, _, _)
passAll(d, ord, hyps, active, idx, o, i) ==
    IF i > Len(active) THEN hyps
    ELSE passAll(d, ord, pass(d, ord, hyps, active[i], idx, o), active, idx, o, i + 1)

\* The loop of propagate over d.graph.nodes: the best token of each node.
RECURSIVE keepBest(_, _, _, _)
keepBest(hyps, nodes, i, active) ==
    IF i > Len(nodes) THEN active
    ELSE LET best == maxScore(hyps[nodes[i]])
         IN keepBest(hyps, nodes, i + 1, IF best # NoToken THEN Append(active, best) ELSE active)

\* d.propagate(idx, o): d.hyps and d.active after the call
propagate(d, ord, active, idx, o) ==
    LET hyps == passAll(d, ord, [node \in GetAll(d.graph) |-> << >>], active, idx, o, 1)
    IN [hyps |-> hyps, active |-> keepBest(hyps, Range(ord, GetAll(d.graph)), 1, << >>)]

\* A pass that recurses into every successor.
PassSuccAll(d, n) == DOMAIN heap[n].successors

\* The successors pass recurses into: the end node and the null nodes.
PassSucc(d, n) == {m \in DOMAIN heap[n].successors : m = d.end \/ heap[m].value.null}

RECURSIVE PassClosure(_, _)
PassClosure(d, S) ==
    LET more == S \cup UNION {PassSucc(d, p) : p \in S}
    IN IF more = S THEN S ELSE PassClosure(d, more)

\* pass(t, ...) never returns: its recursion comes back to a node it is in.
Overflows(d, t) ==
    \E m \in PassClosure(d, PassSucc(d, TNode(t))) : m \in PassClosure(d, PassSucc(d, m))

\* The loop of Decode over obs, from index k on.
RECURSIVE DecodeRange(_, _, _, _, _)
DecodeRange(d, ord, active, obs, k) ==
    IF k >= Len(obs) THEN [active |-> active, overflow |-> FALSE]
    ELSE IF \E i \in 1..Len(active) : Overflows(d, active[i])
    THEN [active |-> active, overflow |-> TRUE]
    ELSE DecodeRange(d, ord, propagate(d, ord, active, k, obs[k + 1]).active, obs, k + 1)

\* A Decode that goes on from the tokens the call before it left in d.active.
DecodeFromActive(obs, ord) ==
    /\ dec.made
    /\ \E r \in {DecodeRange(dec, ord,
                              IF dec.active = << >> THEN <<Token(0, dec.start, NoToken, -1)>>
                              ELSE dec.active, obs, 0)} :
          /\ dec' = [dec EXCEPT !.active = r.active]
          /\ last' = [Call("Decode", maxScore(r.active) # NoToken, IF r.overflow THEN "stack overflow" ELSE "")
                         EXCEPT !.obs = obs, !.token = IF r.overflow THEN NoToken ELSE maxScore(r.active),
                                !.arg = dec.active # << >>]
    /\ UNCHANGED <<heap, graphs>>

\* d.Decode(obs), the range loops visiting the nodes in the order ord.  A
\* recursion of pass that never returns ends the program (stack overflow).
\* last.arg tells whether d.active held tokens when the call began.
Decode(obs, ord) ==
    /\ dec.made
    /\ \E r \in {DecodeRange(dec, ord, <<Token(0, dec.start, NoToken, -1)>>, obs, 0)} :
          /\ dec' = [dec EXCEPT !.active = r.active]
          /\ IF r.overflow
             THEN last' = [Call("Decode", FALSE, "stack overflow")
                              EXCEPT !.obs = obs, !.arg = dec.active # << >>]
             ELSE last' = [Call("Decode", maxScore(r.active) # NoToken, "")
                              EXCEPT !.obs = obs, !.token = maxScore(r.active),
                                     !.arg = dec.active # << >>]
    /\ UNCHANGED <<heap, graphs>>

\* t.Backtrace(tokens)
RECURSIVE Backtrace(_, _)
Backtrace(t, tokens) ==
    IF BT(t) = NoToken THEN Append(tokens, t)
    ELSE Backtrace(BT(t), Append(tokens, t))

\* t.IsNull()
IsNull(t) == heap[TNode(t)].value.null

\* Best that leaves the backtrace in the order Backtrace gives it.
BestUnreversed(t) == Backtrace(t, << >>)

\* t.Best(): the backtrace ordered by time
Best(t) ==
    LET bt == Backtrace(t, << >>)
    IN [i \in 1..Len(bt) |-> bt[Len(bt) + 1 - i]]

\* h.Labels(noNull)
RECURSIVE LabelsRange(_, _, _, _)
LabelsRange(h, noNull, i, labels) ==
    IF i > Len(h) THEN labels
    ELSE IF noNull /\ IsNull(h[i]) THEN LabelsRange(h, noNull, i + 1, labels)
    ELSE LabelsRange(h, noNull, i + 1, Append(labels, heap[TNode(h[i])].key))

\* Labels that keeps the null nodes whatever noNull is.
LabelsKeepingNull(h, noNull) == LabelsRange(h, FALSE, 1, << >>)

Labels(h, noNull) == LabelsRange(h, noNull, 1, << >>)

NewDecoderV == last.err # "stack overflow" /\ NewDecoder("g") /\ UNCHANGED astar
DecodeV == \E obs \in ObsSeqs, ord \in Orders(DOMAIN heap) : last.err # "stack overflow" /\ Decode(obs, ord) /\ UNCHANGED astar

NextViterbi == NewDecoderV \/ DecodeV

SpecViterbi == InitViterbi /\ [][NextViterbi]_vars

\* ------------------------------------------------- shortest path (A*)
\* The graphs searched: nodes s, a, b, t; each of the arcs of AArcs absent or
\* present with a weight of AWeights.
AKeys == {"s", "a", "b", "t"}
AWeights == {1, 3}
AArcs ==
    {<<"s", "a">>, <<"s", "b">>, <<"a", "b">>, <<"b", "a">>,
     <<"a", "t">>, <<"b", "t">>}

\* heuristic(key, endKey) for the endKey of one call, as a function of key:
\* an estimate of 0 or 3 for a and for b, 0 for s and t.
Heuristics == {h \in [AKeys -> {0, 3}] : h["s"] = 0 /\ h["t"] = 0}

AHeap(w) ==
    [p \in {<<"g", k, 0>> : k \in AKeys} |->
        [key |-> p[2],
         value |-> CHOOSE value \in Values : TRUE,
         successors |-> [q \in {<<"g", k, 0>> : k \in {t \in AKeys : <<p[2], t>> \in DOMAIN w}} |->
                            w[<<p[2], q[2]>>]]]]

InitAStar ==
    /\ \E arcs \in SUBSET AArcs : \E w \in [arcs -> AWeights] : heap = AHeap(w)
    /\ graphs = MakeNodes(AKeys)
    /\ dec = NoDecoder
    /\ astar = NoSearch
    /\ last = Call("New", TRUE, "")

\* node.GetSuccessors(): the successors map of the node, none for a nil node
\* (as Node.Successors)
GetSuccessors(node) == IF node = NULL THEN EmptyMap ELSE heap[node].successors

\* type Item struct { v; prev; distanceFromStart; priority; index }: the index
\* is the position of the item in the queue, kept by the queue itself.
Item(v, prev, distanceFromStart, priority) ==
    [v |-> v, prev |-> prev, distanceFromStart |-> distanceFromStart, priority |-> priority]

\* type priorityQueue []*Item, a heap ordered by priority: heap.Pop yields an
\* item of least priority; which one among equals depends on the layout.
PopChoices(openQueue) == {i \in openQueue : \A j \in openQueue : i.priority <= j.priority}

\* heap.Push(openQueue, item)
Push(openQueue, item) == openQueue \cup {item}

\* heap.Remove(openQueue, item.index)
Remove(openQueue, item) == openQueue \ {item}

\* The path built when end is popped: the keys along the prev links of the
\* closed list, from current until nil, appended in that order.
RECURSIVE BuildPath(_, _)
BuildPath(closedList, current) ==
    IF current = NULL THEN << >>
    ELSE <<heap[current].key>> \o BuildPath(closedList, closedList[current].prev)

\* A loop over the successors that opens none of them.
RelaxNone(s, closedList, current, distance, heuristic, succs, i) == s

\* A loop over the successors that also skips an open successor whose known
\* distance equals the new one.
RECURSIVE RelaxSkipsEqual(_, _, _, _, _, _, _)
RelaxSkipsEqual(s, closedList, current, distance, heuristic, succs, i) ==
    IF i > Len(succs) THEN s
    ELSE LET successor == succs[i]
             weight == heap[current].successors[successor]
             distanceToSuccessor == distance + weight
             item == [v |-> successor, prev |-> current,
                      distanceFromStart |-> distanceToSuccessor,
                      priority |-> distanceToSuccessor + heuristic[heap[successor].key]]
             known == successor \in DOMAIN s.openList
         IN IF successor \in DOMAIN closedList
               \/ (known /\ s.openList[successor].distanceFromStart <= distanceToSuccessor)
            THEN RelaxSkipsEqual(s, closedList, current, distance, heuristic, succs, i + 1)
            ELSE RelaxSkipsEqual([openList |-> Put(s.openList, successor, item),
                                  openQueue |-> (IF known THEN s.openQueue \ {s.openList[successor]}
                                                 ELSE s.openQueue) \cup {item}],
                                 closedList, current, distance, heuristic, succs, i + 1)

\* The loop over current.GetSuccessors(), visiting them in the order succs.
\* s is [openList, openQueue].
RECURSIVE Relax(_, _, _, _, _, _, _)
Relax(s, closedList, current, distance, heuristic, succs, i) ==
    IF i > Len(succs) THEN s
    ELSE LET successor == succs[i]
             weight == GetSuccessors(current)[successor]
             distanceToSuccessor == distance + weight
             item == Item(successor, current, distanceToSuccessor,
                          distanceToSuccessor + heuristic[heap[successor].key])
             known == successor \in DOMAIN s.openList
         IN IF successor \in DOMAIN closedList
            THEN Relax(s, closedList, current, distance, heuristic, succs, i + 1)
            ELSE IF known /\ s.openList[successor].distanceFromStart < distanceToSuccessor
            THEN Relax(s, closedList, current, distance, heuristic, succs, i + 1)
            ELSE LET queue == IF known THEN Remove(s.openQueue, s.openList[successor])
                              ELSE s.openQueue
                 IN Relax([openList |-> Put(s.openList, successor, item),
                           openQueue |-> Push(queue, item)],
                          closedList, current, distance, heuristic, succs, i + 1)

\* The locals of g.ShortestPathWithHeuristic(startKey, endKey, heuristic) when
\* it enters its loop.  g.get gives nil for a key that is not registered.
Search(g, startKey, endKey, heuristic) ==
    LET start == get(g, startKey)
        end == get(g, endKey)
        item == Item(start, NULL, 0, 0)
    IN [pc |-> "loop", startKey |-> startKey, endKey |-> endKey,
        heuristic |-> heuristic, end |-> end,
        openList |-> Put(EmptyMap, start, item),
        openQueue |-> Push({}, item),
        closedList |-> EmptyMap,
        path |-> << >>, exists |-> FALSE]

\* One turn of the loop "for openQueue.Len() > 0" on the locals a, or the
\* return after it: the locals it can leave.
LoopTurn(a) ==
    IF a.openQueue = {}
    THEN {[a EXCEPT !.pc = "done"]}
    ELSE UNION {
        LET current == popped.v
            closedList == Put(a.closedList, current, a.openList[current])
            openList == Del(a.openList, current)
            openQueue == Remove(a.openQueue, popped)
        IN IF current = a.end
           THEN {[a EXCEPT !.pc = "done", !.openList = openList,
                           !.openQueue = openQueue,
                           !.closedList = closedList,
                           !.exists = TRUE,
                           !.path = BuildPath(closedList, current)]}
           ELSE {[a EXCEPT !.openList = s.openList,
                           !.openQueue = s.openQueue,
                           !.closedList = closedList] :
                    s \in {Relax([openList |-> openList, openQueue |-> openQueue],
                                 closedList, current,
                                 closedList[current].distanceFromStart,
                                 a.heuristic,
                                 SeqOf(DOMAIN GetSuccessors(current)), 1)}}
        : popped \in PopChoices(a.openQueue)}

\* g.ShortestPathWithHeuristic(startKey, endKey, heuristic), up to its loop.
\* The lists and the queue are locals of the call: one call is followed.
ShortestPathWithHeuristic(g, startKey, endKey, heuristic) ==
    /\ astar.pc = "idle"
    /\ astar' = Search(g, startKey, endKey, heuristic)
    /\ UNCHANGED <<heap, graphs, last>>

\* One turn of the loop "for openQueue.Len() > 0", or the return after it.
ShortestPathLoop ==
    /\ astar.pc = "loop"
    /\ \E a \in LoopTurn(astar) :
          /\ astar' = a
          /\ IF a.pc = "done"
             THEN last' = Call("ShortestPathWithHeuristic", a.exists, "")
             ELSE UNCHANGED last
    /\ UNCHANGED <<heap, graphs>>

ShortestPathA ==
    \E startKey, endKey \in AKeys, heuristic \in Heuristics :
        ShortestPathWithHeuristic("g", startKey, endKey, heuristic) /\ UNCHANGED dec
ShortestPathLoopA == ShortestPathLoop /\ UNCHANGED dec

NextAStar == ShortestPathA \/ ShortestPathLoopA

SpecAStar == InitAStar /\ [][NextAStar]_vars

\* The call runs to its return: the loop is a sequential loop of one thread.
SpecAStarFair == SpecAStar /\ WF_vars(ShortestPathLoopA)

\* ------------------------------------------------------ TransitionMatrix
\* The order of Go's < on the keys of the model.
Alphabet == <<"a", "b", "s", "s0", "s1", "s2", "s3", "s4", "t">>
KeyLess(k1, k2) ==
    \E i, j \in 1..Len(Alphabet) : Alphabet[i] = k1 /\ Alphabet[j] = k2 /\ i < j

\* sort.Sort(ByName{nodes}) of the nodes of g
ByName(g) ==
    CHOOSE nodes \in Orders(GetAll(g)) :
        \A i, j \in 1..Len(nodes) : i < j => KeyLess(heap[nodes[i]].key, heap[nodes[j]].key)

\* index[toNode]: the position of the node in nodes; that of the first
\* node, the zero value of the map, when toNode is not in nodes.
Index(nodes, toNode) ==
    IF \E k \in 1..Len(nodes) : nodes[k] = toNode
    THEN CHOOSE k \in 1..Len(nodes) : nodes[k] = toNode
    ELSE 1

\* The row of fromNode: the loop over fromNode.successors in the order ord.
RECURSIVE TransitionRow(_, _, _, _, _, _)
TransitionRow(row, nodes, isLog, fromNode, ord, k) ==
    IF k > Len(ord) THEN row
    ELSE LET toNode == ord[k]
             w == heap[fromNode].successors[toNode]
             j == Index(nodes, toNode)
             made == IF Len(row) = 0
                     THEN [m \in 1..Len(nodes) |-> IF isLog THEN NegInf ELSE 0]
                     ELSE row
         IN TransitionRow([made EXCEPT ![j] = w], nodes, isLog, fromNode, ord, k + 1)

\* g.TransitionMatrix(isLog), ranging over the successors of node n in the
\* order ords[n]
TransitionMatrix(g, isLog, ords) ==
    LET nodes == ByName(g)
    IN [keys |-> [i \in 1..Len(nodes) |-> heap[nodes[i]].key],
        weights |-> [i \in 1..Len(nodes) |->
                        TransitionRow(<< >>, nodes, isLog, nodes[i], ords[nodes[i]], 1)]]

\* ------------------------------------------------------------ Normalize
\* Weights as exact fractions in lowest terms, [num, den] with den > 0: the
\* float64 sums and quotients of Normalize without their rounding.
RECURSIVE GCD(_, _)
GCD(a, b) == IF b = 0 THEN a ELSE GCD(b, a % b)

Frac(n, d) == [num |-> n \div GCD(n, d), den |-> d \div GCD(n, d)]

\* sum += w
FracAdd(x, y) == Frac(x.num * y.den + y.num * x.den, x.den * y.den)

\* w / sum
FracDiv(x, y) == Frac(x.num * y.den, x.den * y.num)

\* The weights given to Connect: 1 and 5.
NWeights == {Frac(1, 1), Frac(5, 1)}

\* The first loop of Normalize: the sum of the weights of succ over ord.
RECURSIVE SumWeights(_, _, _)
SumWeights(succ, ord, i) ==
    IF i > Len(ord) THEN Frac(0, 1)
    ELSE FracAdd(succ[ord[i]], SumWeights(succ, ord, i + 1))

\* Normalize that divides by the number of successors.
NormalizeByCount(g, key) ==
    LET node == get(g, key)
        succ == heap[node].successors
    IN /\ node # NULL
       /\ \A s \in DOMAIN succ : succ[s].den <= MaxDen
       /\ heap' = [heap EXCEPT ![node].successors =
                      [s \in DOMAIN succ |-> FracDiv(succ[s], Frac(Cardinality(DOMAIN succ), 1))]]
       /\ last' = Call("Normalize", TRUE, "")
       /\ UNCHANGED graphs

\* g.get(key).Normalize(false), for weights of denominator MaxDen at most
Normalize(g, key) ==
    LET node == get(g, key)
        succ == heap[node].successors
        sum == SumWeights(succ, SeqOf(DOMAIN succ), 1)
    IN /\ node # NULL
       /\ \A s \in DOMAIN succ : succ[s].den <= MaxDen
       /\ heap' = [heap EXCEPT ![node].successors =
                      [s \in DOMAIN succ |-> FracDiv(succ[s], sum)]]
       /\ last' = Call("Normalize", TRUE, "")
       /\ UNCHANGED graphs

SetN == \E key \in Keys, value \in Values : Set("g", key, value) /\ UNCHANGED <<dec, astar>>
ConnectN == \E from, to \in Keys, weight \in NWeights : Connect("g", from, to, weight) /\ UNCHANGED <<dec, astar>>
DisconnectN == \E from, to \in Keys : Disconnect("g", from, to) /\ UNCHANGED <<dec, astar>>
NormalizeN == \E key \in Keys : Normalize("g", key) /\ UNCHANGED <<dec, astar>>

NextNormalize == SetN \/ ConnectN \/ DisconnectN \/ NormalizeN

SpecNormalize == Init /\ [][NextNormalize]_vars

\* -------------------------------------------------- export and initGraph
\* g.exportGraph(): the GraphIO values the loop over g.nodes can build.
exportGraph(h, n) ==
    {[Nodes |-> [k \in DOMAIN n |-> h[n[k]].value], Arcs |-> arcs] :
        arcs \in Choices(DOMAIN n, LAMBDA k : add(h, n[k]))}

\* The arcs of a GraphIO as triples <<key, otherKey, weight>>, and the orders
\* in which the two nested range loops of initGraph can visit them: the
\* arcs of one key come together.
ArcTriples(gio) ==
    {<<p[1], p[2], gio.Arcs[p[1]][p[2]]>> :
        p \in {q \in (DOMAIN gio.Arcs) \X UNION {DOMAIN gio.Arcs[k] : k \in DOMAIN gio.Arcs} :
                  q[2] \in DOMAIN gio.Arcs[q[1]]}}
ArcOrders(gio) ==
    {s \in Orders(ArcTriples(gio)) :
        \A i, j, k \in 1..Len(s) : (i < j /\ j < k /\ s[i][1] = s[k][1]) => s[j][1] = s[i][1]}

\* The connecting loop of initGraph over arcs: the first Connect that
\* returns false ends it with an error.
RECURSIVE ConnectArcs(_, _, _, _)
ConnectArcs(h, n, arcs, i) ==
    IF i > Len(arcs) THEN [err |-> "nil", heap |-> h, nodes |-> n]
    ELSE IF arcs[i][1] \notin DOMAIN n \/ arcs[i][2] \notin DOMAIN n
    THEN [err |-> "invalid arc endpoints", heap |-> h, nodes |-> n]
    ELSE ConnectArcs(ConnectIn(h, n, arcs[i][1], arcs[i][2], arcs[i][3]), n, arcs, i + 1)

\* An initGraph that does not look at what Connect returns.
initGraphUnchecked(h, g, gio, arcs) ==
    LET set == SetAll(h, g, EmptyMap, gio.Nodes, SeqOf(DOMAIN gio.Nodes))
        good == SelectSeq(arcs, LAMBDA t : t[1] \in DOMAIN set[2] /\ t[2] \in DOMAIN set[2])
    IN ConnectArcs(set[1], set[2], good, 1)

\* gio.initGraph(g) for an empty graph g, visiting the arcs in the order arcs
initGraph(h, g, gio, arcs) ==
    LET set == SetAll(h, g, EmptyMap, gio.Nodes, SeqOf(DOMAIN gio.Nodes))
    IN ConnectArcs(set[1], set[2], arcs, 1)

\* The GraphIO values handed to initGraph directly: nodes and arcs over the
\* keys of the model, the arcs of weight 1, their endpoints among the nodes
\* or not.
GraphIOs ==
    {[Nodes |-> [k \in ks |-> CHOOSE value \in Values : TRUE],
      Arcs |-> [k \in {p[1] : p \in ps} |-> [o \in {p[2] : p \in {q \in ps : q[1] = k}} |-> 1]]] :
        ks \in SUBSET Keys, ps \in SUBSET (Keys \X Keys)}

\* No graph has been rebuilt yet: one initGraph is followed in a run.
NoneBuilt == graphs["g1"] = EmptyMap /\ graphs["g2"] = EmptyMap

\* g1 := New(); g.exportGraph().initGraph(g1)
ExportInit ==
    /\ NoneBuilt
    /\ \E gio \in exportGraph(heap, graphs["g"]) : \E arcs \in ArcOrders(gio) :
       \E r \in {initGraph(heap, "g1", gio, arcs)} :
           /\ heap' = r.heap
           /\ graphs' = [graphs EXCEPT !["g1"] = r.nodes]
           /\ last' = [Call("exportGraph, initGraph", r.err = "nil", r.err) EXCEPT !.arg = gio]

\* g2 := New(); gio.initGraph(g2), in a program that holds no other graph
InitGraph(gio) ==
    /\ heap = EmptyMap
    /\ NoneBuilt
    /\ \E arcs \in ArcOrders(gio) :
       \E r \in {initGraph(heap, "g2", gio, arcs)} :
           /\ heap' = r.heap
           /\ graphs' = [graphs EXCEPT !["g2"] = r.nodes]
           /\ last' = [Call("initGraph", r.err = "nil", r.err) EXCEPT !.arg = gio]

SetIO == \E key \in Keys, value \in TwoValues : NoneBuilt /\ Set("g", key, value) /\ UNCHANGED <<dec, astar>>
ConnectIO == \E from, to \in Keys, weight \in Weights : NoneBuilt /\ Connect("g", from, to, weight) /\ UNCHANGED <<dec, astar>>
ExportInitIO == ExportInit /\ UNCHANGED <<dec, astar>>
InitGraphIO == \E gio \in GraphIOs : InitGraph(gio) /\ UNCHANGED <<dec, astar>>

NextIO == SetIO \/ ConnectIO \/ ExportInitIO \/ InitGraphIO

SpecIO == Init /\ [][NextIO]_vars

\* ------------------------------------------- searches run side by side
\* Two goroutines of the caller, each calling d.Decode on the decoder d of
\* the chain graph, or g.ShortestPathWithHeuristic on its graph.  The fields
\* d.active and d.hyps belong to the decoder; obs, the loop index and the
\* returned token are locals of one call of Decode, kept in dec.calls.  The
\* locals of one call of ShortestPathWithHeuristic are astar[i].  The calls
\* take turns between statements: one turn is one propagate, or one turn of
\* the loop of the search.
Invocations == {1, 2}
NoCall == [pc |-> "idle", obs |-> << >>, k |-> 0, ret |-> NoToken]

\* The keys searched for: the two ends of the chain and a key that is not
\* registered.
SearchKeys == {"s0", "s4", "x"}
ZeroHeuristic == [k \in ChainKeys |-> 0]

InitSearch ==
    /\ heap = ChainHeap
    /\ graphs = MakeNodes(ChainKeys)
    /\ dec = [made |-> TRUE, graph |-> "g",
              start |-> CHOOSE n \in StartNodes("g") : TRUE,
              end |-> CHOOSE n \in EndNodes("g") : TRUE,
              active |-> << >>,
              calls |-> [i \in Invocations |-> NoCall]]
    /\ astar = [i \in Invocations |-> NoSearch]
    /\ last = Call("NewDecoder", TRUE, "nil")

\* Decode, up to its loop: t := &Token{...}; d.active = []*Token{t}
DecodeBegin(i, obs) ==
    /\ dec.calls[i].pc = "idle"
    /\ dec' = [dec EXCEPT !.active = <<Token(0, dec.start, NoToken, -1)>>,
                          !.calls[i] = [pc |-> "loop", obs |-> obs, k |-> 0, ret |-> NoToken]]
    /\ UNCHANGED <<heap, graphs, astar, last>>

\* A turn of the loop of Decode that also rewrites the weights of the start
\* node.
DecodePropagateWriting(i, ord) ==
    /\ dec.calls[i].pc = "loop"
    /\ dec.calls[i].k < Len(dec.calls[i].obs)
    /\ dec' = [dec EXCEPT !.calls[i].k = @ + 1]
    /\ heap' = [heap EXCEPT ![dec.start].successors = [n \in DOMAIN @ |-> 0]]
    /\ UNCHANGED <<graphs, astar, last>>

\* One turn of the loop of Decode: d.propagate(k, o)
DecodePropagate(i, ord) ==
    LET c == dec.calls[i]
    IN /\ c.pc = "loop"
       /\ c.k < Len(c.obs)
       /\ IF \E j \in 1..Len(dec.active) : Overflows(dec, dec.active[j])
          THEN /\ dec' = [dec EXCEPT !.calls[i].pc = "done"]
               /\ last' = [Call("Decode", FALSE, "stack overflow") EXCEPT !.obs = c.obs, !.arg = i]
          ELSE /\ dec' = [dec EXCEPT !.active = propagate(dec, ord, dec.active, c.k, c.obs[c.k + 1]).active,
                                     !.calls[i].k = c.k + 1]
               /\ UNCHANGED last
       /\ UNCHANGED <<heap, graphs, astar>>

\* The end of Decode: return maxScore(d.active)
DecodeReturn(i) ==
    LET c == dec.calls[i]
        t == maxScore(dec.active)
    IN /\ c.pc = "loop"
       /\ c.k >= Len(c.obs)
       /\ dec' = [dec EXCEPT !.calls[i].pc = "done", !.calls[i].ret = t]
       /\ last' = [Call("Decode", t # NoToken, "") EXCEPT !.obs = c.obs, !.token = t, !.arg = i]
       /\ UNCHANGED <<heap, graphs, astar>>

\* ShortestPathWithHeuristic of the call i, up to its loop
SearchBegin(i, startKey, endKey, heuristic) ==
    /\ astar[i].pc = "idle"
    /\ astar' = [astar EXCEPT ![i] = Search("g", startKey, endKey, heuristic)]
    /\ UNCHANGED <<heap, graphs, dec, last>>

\* One turn of the loop of the call i, or its return
SearchLoop(i) ==
    /\ astar[i].pc = "loop"
    /\ \E a \in LoopTurn(astar[i]) :
          /\ astar' = [astar EXCEPT ![i] = a]
          /\ IF a.pc = "done"
             THEN last' = [Call("ShortestPathWithHeuristic", a.exists, "") EXCEPT !.arg = i]
             ELSE UNCHANGED last
    /\ UNCHANGED <<heap, graphs, dec>>

\* Two orders of a range loop over the nodes: one and its reverse.
RangeOrders ==
    LET keys == SelectSeq(Alphabet, LAMBDA k : k \in DOMAIN graphs["g"])
        ord == [i \in 1..Len(keys) |-> graphs["g"][keys[i]]]
    IN {ord, [i \in 1..Len(ord) |-> ord[Len(ord) + 1 - i]]}

\* A run follows two calls of Decode or two calls of ShortestPathWithHeuristic.
Decoding == \E i \in Invocations : dec.calls[i].pc # "idle"
Searching == \E i \in Invocations : astar[i].pc # "idle"

DecodeBeginS == \E i \in Invocations, obs \in ObsSeqs : ~Searching /\ DecodeBegin(i, obs)
DecodePropagateS == \E i \in Invocations, ord \in RangeOrders : DecodePropagate(i, ord)
DecodeReturnS == \E i \in Invocations : DecodeReturn(i)
SearchBeginS == \E i \in Invocations, startKey, endKey \in SearchKeys : ~Decoding /\ SearchBegin(i, startKey, endKey, ZeroHeuristic)
SearchLoopS == \E i \in Invocations : SearchLoop(i)

NextSearch == DecodeBeginS \/ DecodePropagateS \/ DecodeReturnS \/ SearchBeginS \/ SearchLoopS

SpecSearch == InitSearch /\ [][NextSearch]_vars

\* ================================================================ claims
\* ------------------------------------------------------ the graph store
\* The nodes registered in graph g, and g.IsConnected in the next state.
Registered(g) == {graphs[g][k] : k \in DOMAIN graphs[g]}
IsConnectedNext(g, from, to) == IsConnectedIn(heap', graphs'[g], from, to)

\* C1: every node in the successor map of a registered node is itself
\* registered in the graph (Delete leaves no arc pointing at the deleted node).
C1_EndpointsRegistered ==
    \A n \in Registered("g") : DOMAIN heap[n].successors \subseteq Registered("g")

\* C2: Delete(k) returns true exactly when k was registered; then k is no
\* longer registered and IsConnected(n, k) is false for every key n, and it
\* stays false when Set registers k again; Delete of an unregistered key
\* returns false and changes nothing.
C2_DeleteContract ==
    [][/\ \A k \in Keys : (last'.op = "Delete" /\ Delete("g", k)) =>
            /\ last'.ret = (k \in DOMAIN graphs["g"])
            /\ last'.ret => /\ k \notin DOMAIN graphs'["g"]
                            /\ \A n \in Keys : ~IsConnectedNext("g", n, k)[1]
            /\ ~last'.ret => heap' = heap /\ graphs' = graphs
       /\ \A k \in Keys, value \in Values :
            (last'.op = "Set" /\ k \notin DOMAIN graphs["g"] /\ Set("g", k, value)) =>
                /\ k \in DOMAIN graphs'["g"]
                /\ \A n \in Keys : ~IsConnectedNext("g", n, k)[1]]_vars

\* C2 witness: Delete returned true and an arc to the deleted node is still
\* in the successor map of a remaining node.
C2_Witness ==
    /\ last.op = "Delete" /\ last.ret
    /\ \E n \in Registered("g") : ~(DOMAIN heap[n].successors \subseteq Registered("g"))

\* C3: for registered a and b, Connect(a, b, w) returns true and
\* IsConnected(a, b) is then (true, w), also when the arc existed with another
\* weight; the arcs of a to other nodes are as before.
C3_ConnectSetsWeight ==
    [][\A a, b \in Keys, w \in Weights :
          (last'.op = "Connect" /\ a \in DOMAIN graphs["g"] /\ b \in DOMAIN graphs["g"] /\ Connect("g", a, b, w)) =>
              /\ last'.ret
              /\ IsConnectedNext("g", a, b) = <<TRUE, w>>
              /\ \A c \in Keys \ {b} : IsConnectedNext("g", a, c) = IsConnected("g", a, c)]_vars

\* C3 witness: Connect returned true and the graph holds arcs of both
\* weights between its two nodes.
C3_Witness ==
    /\ last.op = "Connect" /\ last.ret
    /\ \E a, b \in Keys : /\ a # b
                          /\ IsConnected("g", a, b) = <<TRUE, 2>>
                          /\ IsConnected("g", b, a) = <<TRUE, 1>>

\* C4: Connect with an unregistered from or to returns false and leaves the
\* keys, the node values and every successor map as they were.
C4_FailedConnectNoChange ==
    [][\A from, to \in Keys, w \in Weights :
          (last'.op = "Connect" /\ (from \notin DOMAIN graphs["g"] \/ to \notin DOMAIN graphs["g"]) /\ Connect("g", from, to, w)) =>
              /\ ~last'.ret
              /\ graphs' = graphs
              /\ heap' = heap]_vars

\* C4 witness: a Connect returned false on a graph that has a node.
C4_Witness == last.op = "Connect" /\ ~last.ret /\ DOMAIN graphs["g"] # {}

\* ------------------------------------------------------------- Merge
\* What a caller sees of graph g: the value at each key and, for each pair
\* of keys, the result of IsConnected.
View(h, gs, g) ==
    [Nodes |-> [k \in DOMAIN gs[g] |-> h[gs[g][k]].value],
     Arcs |-> [pair \in Keys \X Keys |-> IsConnectedIn(h, gs[g], pair[1], pair[2])]]

\* The key sets of the receiver and of the graphs in gs are pairwise disjoint.
DisjointKeys(g, gs) ==
    /\ \A i \in 1..Len(gs) : DOMAIN graphs[gs[i]] \cap DOMAIN graphs[g] = {}
    /\ \A i, j \in 1..Len(gs) : i # j => DOMAIN graphs[gs[i]] \cap DOMAIN graphs[gs[j]] = {}

\* A call on an input graph.
InputCall(x) ==
    \/ \E key \in Keys, value \in Values : Set(x, key, value)
    \/ \E from, to \in Keys : Connect(x, from, to, WeightOf(x))
    \/ \E from, to \in Keys : Disconnect(x, from, to)
    \/ \E key \in Keys : Delete(x, key)

\* C5: Merge of graphs with pairwise disjoint key sets returns nil; the
\* receiver then holds the union of the keys, IsConnected reports exactly the
\* arcs of the receiver and of each input with their weights, the inputs are
\* unchanged and share no node with the receiver, and no later call on an
\* input shows in the receiver.
C5_MergeDisjoint ==
    [][/\ \A gs \in InputLists : (last'.op = "Merge" /\ DisjointKeys("g", gs) /\ Merge("g", gs)) =>
            /\ last'.err = "nil"
            /\ DOMAIN graphs'["g"] = DOMAIN graphs["g"] \cup UNION {DOMAIN graphs[gs[i]] : i \in 1..Len(gs)}
            /\ \A from, to \in Keys :
                  IsConnectedNext("g", from, to) =
                     IF from \in DOMAIN graphs["g"] /\ to \in DOMAIN graphs["g"]
                     THEN IsConnected("g", from, to)
                     ELSE IF \E i \in 1..Len(gs) : {from, to} \subseteq DOMAIN graphs[gs[i]]
                     THEN LET i == CHOOSE i \in 1..Len(gs) : {from, to} \subseteq DOMAIN graphs[gs[i]]
                          IN IsConnected(gs[i], from, to)
                     ELSE <<FALSE, 0>>
            /\ \A x \in Inputs : View(heap', graphs', x) = View(heap, graphs, x)
            /\ \A x \in Inputs : {graphs'[x][k] : k \in DOMAIN graphs'[x]}
                                      \cap {graphs'["g"][k] : k \in DOMAIN graphs'["g"]} = {}
       /\ \A x \in Inputs : (last'.op # "Merge" /\ InputCall(x)) =>
                                 View(heap', graphs', "g") = View(heap, graphs, "g")]_vars

\* C6: when a key is in the receiver and an input, or in two inputs, Merge
\* returns ErrDuplicateKey and the receiver (and every other graph) is as it
\* was, at whatever place of the argument list the colliding graph stands.
C6_DuplicateKeyNoChange ==
    [][\A gs \in InputLists : (last'.op = "Merge" /\ ~DisjointKeys("g", gs) /\ Merge("g", gs)) =>
          /\ last'.err = "ErrDuplicateKey"
          /\ graphs' = graphs
          /\ heap' = heap]_vars

\* C6 witness: Merge returned ErrDuplicateKey for a key that two inputs
\* share and the receiver, which has a node, does not hold.
C6_Witness ==
    /\ last.op = "Merge" /\ last.err = "ErrDuplicateKey"
    /\ DOMAIN graphs["g"] # {}
    /\ DOMAIN graphs["g1"] \cap DOMAIN graphs["g2"] # {}
    /\ DOMAIN graphs["g"] \cap (DOMAIN graphs["g1"] \cup DOMAIN graphs["g2"]) = {}

\* C7: whenever Merge returns an error, the receiver is as it was before the
\* call: the same keys, held by the same unchanged nodes.
C7_FailedMergeNoChange ==
    [][\A gs \in InputLists : (last'.op = "Merge" /\ last'.err # "nil" /\ Merge("g", gs)) =>
          /\ graphs'["g"] = graphs["g"]
          /\ \A p \in Registered("g") : heap'[p] = heap[p]]_vars

\* ------------------------------------------------------------ Viterbi
\* Some cycle of the graph is made only of null nodes.
NullSucc(n) == {m \in DOMAIN heap[n].successors : heap[m].value.null}

RECURSIVE NullClosure(_)
NullClosure(S) ==
    LET more == S \cup UNION {NullSucc(p) : p \in S}
    IN IF more = S THEN S ELSE NullClosure(more)

HasNullCycle(g) == \E m \in GetAll(g) : heap[m].value.null /\ m \in NullClosure(NullSucc(m))

\* The scores of the paths that leave node n with score acc, pass through one
\* emitting node for each of the observations obs[i], obs[i+1], ... and
\* stop at the last of them; with skipEnd, the paths that enter the end node
\* are left out.
RECURSIVE PathScores(_, _, _, _, _, _)
PathScores(d, skipEnd, n, acc, obs, i) ==
    IF i > Len(obs) THEN {acc}
    ELSE UNION {LET w == heap[n].successors[m]
                    val == heap[m].value
                IN IF val.null THEN PathScores(d, skipEnd, m, acc + w, obs, i)
                   ELSE IF skipEnd /\ m = d.end THEN {}
                   ELSE PathScores(d, skipEnd, m, acc + w + Score(val, obs[i]), obs, i + 1)
                : m \in DOMAIN heap[n].successors}

Max(S) == CHOOSE x \in S : \A y \in S : y <= x

\* C8 as stated: when the graph has one start node, one end node and no
\* cycle of null nodes, Decode over N >= 1 observations returns a token whose
\* Score is the maximum, over the paths from the start node through N
\* emitting nodes, of the sum of the arc weights and the emission scores.
C8_DecodeIsOptimal ==
    (last.op = "Decode" /\ Len(last.obs) >= 1 /\ ~HasNullCycle("g")) =>
        LET S == PathScores(dec, FALSE, dec.start, 0, last.obs, 1)
        IN S # {} => (last.token # NoToken /\ TScore(last.token) = Max(S))

\* What Decode does return: the maximum over the paths none of whose N
\* emitting nodes is the end node, and nil when there is no such path.
DecodeIsOptimalOffEnd ==
    (last.op = "Decode" /\ Len(last.obs) >= 1 /\ ~HasNullCycle("g")) =>
        LET S == PathScores(dec, TRUE, dec.start, 0, last.obs, 1)
        IN IF S = {} THEN last.token = NoToken
           ELSE last.token # NoToken /\ TScore(last.token) = Max(S)

\* The chain was decoded over 4 observations.
ChainDecoded == last.op = "Decode" /\ heap = ChainHeap /\ Len(last.obs) = 4

\* C9 as stated: on the chain with 4 observations, the node sequence of the
\* hypothesis Decode returns begins with s0 and ends with s4.
C9_CompletePath ==
    ChainDecoded =>
        /\ last.token # NoToken
        /\ LET labels == Labels(Best(last.token), FALSE)
           IN labels[1] = "s0" /\ labels[Len(labels)] = "s4"

\* C9, amended: the hypothesis Decode returns begins with the start node
\* and ends with an emitting node that is not the end node; on the chain
\* with 4 observations it begins with s0, ends with one of s1, s2, s3 and
\* never holds s4, and it is the best of all the active tokens.
C9_PathEndsAtEmittingNode ==
    /\ (last.op = "Decode" /\ last.token # NoToken /\ Len(last.obs) >= 1) =>
           LET labels == Labels(Best(last.token), FALSE)
           IN /\ labels[1] = heap[dec.start].key
              /\ ~IsNull(last.token)
              /\ TNode(last.token) # dec.end
              /\ labels[Len(labels)] = heap[TNode(last.token)].key
    /\ ChainDecoded =>
           /\ last.token # NoToken
           /\ LET labels == Labels(Best(last.token), FALSE)
              IN /\ labels[1] = "s0"
                 /\ labels[Len(labels)] \in {"s1", "s2", "s3"}
                 /\ \A i \in 1..Len(labels) : labels[i] # "s4"
           /\ \A i \in 1..Len(dec.active) : TScore(dec.active[i]) <= TScore(last.token)
           /\ \E i \in 1..Len(dec.active) : dec.active[i] = last.token

C9_Witness ==
    /\ ChainDecoded
    /\ last.token # NoToken
    /\ Len(dec.active) >= 2
    /\ Labels(Best(last.token), TRUE) = <<"s1", "s1", "s1", "s1">>

\* C10: NewDecoder returns an error and no decoder when the nodes without
\* predecessors are not exactly one (the error carries their number), when
\* the nodes without successors are not exactly one (likewise), or when
\* a node value is not a Viterbier; it returns a decoder and a nil error
\* exactly when the three conditions hold.
C10_NewDecoder ==
    last.op = "NewDecoder" =>
        LET nodes == {graphs["g"][k] : k \in DOMAIN graphs["g"]}
            noPred == {n \in nodes : \A m \in nodes : n \notin DOMAIN heap[m].successors}
            noSucc == {n \in nodes : DOMAIN heap[n].successors = {}}
            allViterbier == \A n \in nodes : heap[n].value.kind = "vvalue"
            ok == Cardinality(noPred) = 1 /\ Cardinality(noSucc) = 1 /\ allViterbier
        IN /\ Cardinality(noPred) # 1 =>
               (~dec.made /\ last.err = "start" /\ last.found = Cardinality(noPred))
           /\ (Cardinality(noPred) = 1 /\ Cardinality(noSucc) # 1) =>
               (~dec.made /\ last.err = "end" /\ last.found = Cardinality(noSucc))
           /\ ~ok => (~dec.made /\ last.err # "nil")
           /\ (dec.made /\ last.err = "nil") <=> ok
           /\ dec.made => (dec.start \in noPred /\ dec.end \in noSucc)

\* NewDecoder refused a graph whose only fault is a value.
C10_Witness ==
    /\ last.op = "NewDecoder"
    /\ last.err = "viterbier"
    /\ ~dec.made
    /\ Cardinality(StartNodes("g")) = 1
    /\ Cardinality(EndNodes("g")) = 1

\* ------------------------------------------------------ shortest path
\* A search that has returned, and one that has returned exists = true.
Returned == astar.pc = "done"
Found == Returned /\ astar.exists

\* p is a directed path of the graph: each pair of neighbours is an edge.
IsPath(p) == \A i \in 1..(Len(p) - 1) : IsConnected("g", p[i], p[i + 1])[1]

\* The total edge weight of the key sequence p.
RECURSIVE PathWeight(_, _)
PathWeight(p, i) ==
    IF i >= Len(p) THEN 0
    ELSE IsConnected("g", p[i], p[i + 1])[2] + PathWeight(p, i + 1)

Reversed(p) == [i \in 1..Len(p) |-> p[Len(p) + 1 - i]]

Min(S) == CHOOSE x \in S : \A y \in S : x <= y

\* The reference: Bellman-Ford from startKey.  d maps the keys found
\* reachable so far to the least weight found; one round relaxes every edge.
BellmanFordRound(d) ==
    LET via(k) == {d[u] + IsConnected("g", u, k)[2] :
                       u \in {x \in DOMAIN d : IsConnected("g", x, k)[1]}}
                  \cup (IF k \in DOMAIN d THEN {d[k]} ELSE {})
    IN [k \in {x \in DOMAIN graphs["g"] : via(x) # {}} |-> Min(via(k))]

RECURSIVE BellmanFordRounds(_, _)
BellmanFordRounds(d, n) == IF n = 0 THEN d ELSE BellmanFordRounds(BellmanFordRound(d), n - 1)

BellmanFord(startKey) ==
    BellmanFordRounds([k \in {startKey} |-> 0], Cardinality(DOMAIN graphs["g"]))

\* C11 as stated: when the search reports exists = true, the returned path
\* runs from start to end: its first key is startKey, its last is endKey,
\* and each key has a direct edge to the next.
C11_PathFromStartToEnd ==
    Found =>
        /\ astar.path # << >>
        /\ astar.path[1] = astar.startKey
        /\ astar.path[Len(astar.path)] = astar.endKey
        /\ IsPath(astar.path)

\* What the code returns instead: the path from end back to start.
PathFromEndToStart ==
    Found =>
        /\ astar.path # << >>
        /\ astar.path[1] = astar.endKey
        /\ astar.path[Len(astar.path)] = astar.startKey
        /\ IsPath(Reversed(astar.path))

\* C12 as stated: with the heuristic identically 0, the returned path is a
\* path of the graph whose total edge weight is the least total weight of
\* the directed paths from start to end, as Bellman-Ford computes it.
C12_ZeroHeuristicIsOptimal ==
    (Found /\ \A k \in AKeys : astar.heuristic[k] = 0) =>
        /\ IsPath(astar.path)
        /\ PathWeight(astar.path, 1) = BellmanFord(astar.startKey)[astar.endKey]

\* The returned keys read from last to first are a path of least weight.
ZeroHeuristicReversedIsOptimal ==
    (Found /\ \A k \in AKeys : astar.heuristic[k] = 0) =>
        /\ IsPath(Reversed(astar.path))
        /\ PathWeight(Reversed(astar.path), 1) = BellmanFord(astar.startKey)[astar.endKey]

\* The heuristic never exceeds the least weight of a path to endKey.
Admissible(heuristic, endKey) ==
    \A k \in AKeys :
        endKey \in DOMAIN BellmanFord(k) => heuristic[k] <= BellmanFord(k)[endKey]

\* The heuristic is 0 at endKey and drops by at most the weight along an edge.
Consistent(heuristic, endKey) ==
    /\ heuristic[endKey] = 0
    /\ \A u, v \in AKeys :
           IsConnected("g", u, v)[1] => heuristic[u] <= IsConnected("g", u, v)[2] + heuristic[v]

\* C13 as stated: with an admissible heuristic the returned path is a path
\* of the graph of least total weight, although closed nodes are never
\* reconsidered.
C13_AdmissibleIsOptimal ==
    (Found /\ Admissible(astar.heuristic, astar.endKey)) =>
        /\ IsPath(astar.path)
        /\ PathWeight(astar.path, 1) = BellmanFord(astar.startKey)[astar.endKey]

\* Read from last to first, the returned keys need not be of least weight
\* under an admissible heuristic (violated), but are under a consistent one.
AdmissibleReversedIsOptimal ==
    (Found /\ Admissible(astar.heuristic, astar.endKey)) =>
        PathWeight(Reversed(astar.path), 1) = BellmanFord(astar.startKey)[astar.endKey]
ConsistentReversedIsOptimal ==
    (Found /\ Consistent(astar.heuristic, astar.endKey)) =>
        PathWeight(Reversed(astar.path), 1) = BellmanFord(astar.startKey)[astar.endKey]

\* C14: for registered start and end keys the search terminates, and it
\* reports exists = true exactly when end is reachable from start along
\* directed edges (start = end is reachable); when it is not, it returns
\* exists = false with an empty path.
C14_TerminatesAndDecidesReachability ==
    /\ [](Returned =>
            /\ astar.exists <=> (astar.endKey \in DOMAIN BellmanFord(astar.startKey))
            /\ ~astar.exists => astar.path = << >>)
    /\ (astar.pc = "loop" ~> Returned)

\* A search that closed three nodes and found that end cannot be reached.
C14_Witness ==
    /\ Returned
    /\ ~astar.exists
    /\ Cardinality(DOMAIN astar.closedList) = 3
    /\ astar.path = << >>

\* ------------------------------------------------------ TransitionMatrix
\* The orders in which the successors of each node of g may be visited.
SuccessorOrders(g) ==
    {ords \in [GetAll(g) -> UNION {Orders(DOMAIN heap[n].successors) : n \in GetAll(g)}] :
        \A n \in GetAll(g) : ords[n] \in Orders(DOMAIN heap[n].successors)}

\* C15 as stated: for every graph reached by Set, Connect, Disconnect and
\* Delete, TransitionMatrix returns every registered key once in ascending
\* order; the row of a key with an outgoing edge holds at (i, j) the weight
\* IsConnected(keys[i], keys[j]) reports, or 0 (-Inf when isLog) when it
\* reports no edge; the row of a key with no outgoing edge is empty.
C15_TransitionMatrix ==
    \A isLog \in BOOLEAN : \A ords \in SuccessorOrders("g") :
        LET tm == TransitionMatrix("g", isLog, ords)
            n == Len(tm.keys)
        IN /\ {tm.keys[i] : i \in 1..n} = DOMAIN graphs["g"]
           /\ \A i, j \in 1..n : i < j => KeyLess(tm.keys[i], tm.keys[j])
           /\ \A i \in 1..n :
                  IF \E k \in DOMAIN graphs["g"] : IsConnected("g", tm.keys[i], k)[1]
                  THEN /\ Len(tm.weights[i]) = n
                       /\ \A j \in 1..n :
                              tm.weights[i][j] =
                                  IF IsConnected("g", tm.keys[i], tm.keys[j])[1]
                                  THEN IsConnected("g", tm.keys[i], tm.keys[j])[2]
                                  ELSE IF isLog THEN NegInf ELSE 0
                  ELSE tm.weights[i] = << >>

\* The same on the graphs where every arc ends at a registered node.
TransitionMatrixWithoutDanglingArcs == C1_EndpointsRegistered => C15_TransitionMatrix

\* ------------------------------------------------------------------ Set
\* C16: Set on an unregistered key registers a new node with the value and
\* no outgoing edges and changes nothing else; Set on a registered key
\* changes the value of that node only and returns the same node: keys,
\* nodes and every edge stay as they were.
C16_Set ==
    [][\A key \in Keys, value \in TwoValues :
          (last'.op = "Set" /\ Set("g", key, value)) =>
              LET v == last'.ret IN
              /\ graphs'["g"][key] = v
              /\ heap'[v].key = key
              /\ heap'[v].value = value
              /\ \A k \in DOMAIN graphs["g"] : graphs'["g"][k] = graphs["g"][k]
              /\ \A n \in DOMAIN heap :
                     /\ n \in DOMAIN heap'
                     /\ heap'[n].key = heap[n].key
                     /\ heap'[n].successors = heap[n].successors
                     /\ n # v => heap'[n].value = heap[n].value
              /\ IF key \in DOMAIN graphs["g"]
                 THEN /\ v = graphs["g"][key]
                      /\ DOMAIN graphs'["g"] = DOMAIN graphs["g"]
                      /\ DOMAIN heap' = DOMAIN heap
                 ELSE /\ v \notin DOMAIN heap
                      /\ DOMAIN graphs'["g"] = DOMAIN graphs["g"] \cup {key}
                      /\ DOMAIN heap' = DOMAIN heap \cup {v}
                      /\ heap'[v].successors = EmptyMap
                      /\ \A k \in Keys : ~IsConnectedNext("g", k, key)[1]
      ]_vars

\* Set has just given the value 20 to a registered node that keeps an edge
\* to a node whose value is still 10.
C16_Witness ==
    /\ last.op = "Set"
    /\ heap[last.ret].value.v = 20
    /\ \E n \in DOMAIN heap[last.ret].successors :
           n \in Registered("g") /\ n # last.ret /\ heap[n].value.v = 10

\* ----------------------------------------------------------- Disconnect
\* C17: Disconnect(from, to) returns false exactly when from or to is not
\* registered, and then changes nothing; otherwise it returns true whether
\* or not the edge existed, IsConnected(from, to) is false afterwards, every
\* other edge is unchanged, and Connect(from, to, w) with the weight the
\* edge had brings the original graph back.
C17_Disconnect ==
    [][\A from, to \in Keys :
          (last'.op = "Disconnect" /\ Disconnect("g", from, to)) =>
              /\ last'.ret = (from \in DOMAIN graphs["g"] /\ to \in DOMAIN graphs["g"])
              /\ graphs' = graphs
              /\ ~last'.ret => heap' = heap
              /\ last'.ret =>
                     /\ ~IsConnectedNext("g", from, to)[1]
                     /\ DOMAIN heap' = DOMAIN heap
                     /\ \A n \in DOMAIN heap :
                            /\ heap'[n].key = heap[n].key
                            /\ heap'[n].value = heap[n].value
                            /\ \A m \in DOMAIN heap :
                                   (n # graphs["g"][from] \/ m # graphs["g"][to]) =>
                                       /\ m \in DOMAIN heap'[n].successors <=>
                                              m \in DOMAIN heap[n].successors
                                       /\ m \in DOMAIN heap[n].successors =>
                                              heap'[n].successors[m] = heap[n].successors[m]
                     /\ IsConnected("g", from, to)[1] =>
                            ConnectIn(heap', graphs'["g"], from, to,
                                      IsConnected("g", from, to)[2]) = heap
      ]_vars

\* Disconnect has just returned true; of a pair of nodes one arc is gone and
\* the arc back, of weight 2, is still there.
C17_Witness ==
    /\ last.op = "Disconnect"
    /\ last.ret = TRUE
    /\ \E a, b \in DOMAIN graphs["g"] :
           /\ a # b
           /\ ~IsConnected("g", a, b)[1]
           /\ IsConnected("g", b, a) = <<TRUE, 2>>

\* ---------------------------------------------------------------- Clone
\* C18 as stated: for every graph reached by Set, Connect, Disconnect and
\* Delete, Clone returns without error a graph with the same keys, values,
\* edges and weights that shares no node with the original.
C18_Clone ==
    \A r \in Clone("g", "g1") :
        /\ r.err = "nil"
        /\ DOMAIN r.nodes = DOMAIN graphs["g"]
        /\ \A k \in DOMAIN r.nodes :
               /\ r.heap[r.nodes[k]].value = heap[graphs["g"][k]].value
               /\ r.nodes[k] \notin DOMAIN heap
               /\ DOMAIN r.heap[r.nodes[k]].successors \subseteq {r.nodes[x] : x \in DOMAIN r.nodes}
        /\ \A from, to \in Keys :
               IsConnectedIn(r.heap, r.nodes, from, to) = IsConnected("g", from, to)

\* The same on the graphs where every arc ends at a registered node.
CloneWithoutDanglingArcs == C1_EndpointsRegistered => C18_Clone

\* ------------------------------------------------- StartNodes, EndNodes
\* The registered nodes that IsConnected shows without an incoming edge, and
\* those it shows without an outgoing edge, a self-loop counting as both.
NoIncoming(g) ==
    {graphs[g][k] : k \in {n \in DOMAIN graphs[g] :
                              \A m \in DOMAIN graphs[g] : ~IsConnected(g, m, n)[1]}}
NoOutgoing(g) ==
    {graphs[g][k] : k \in {n \in DOMAIN graphs[g] :
                              \A m \in DOMAIN graphs[g] : ~IsConnected(g, n, m)[1]}}

\* C19 as stated: after any sequence of Set, Connect, Disconnect and Delete,
\* StartNodes returns exactly the registered nodes n with IsConnected(m, n)
\* false for every registered m, and EndNodes exactly the registered nodes n
\* with IsConnected(n, m) false for every registered m.
C19_StartAndEndNodes ==
    /\ StartNodes("g") = NoIncoming("g")
    /\ EndNodes("g") = NoOutgoing("g")

\* StartNodes alone agrees with IsConnected on every reached graph, and
\* EndNodes on those where every arc ends at a registered node.
StartNodesAgree == StartNodes("g") = NoIncoming("g")
EndNodesWithoutDanglingArcs == C1_EndpointsRegistered => EndNodes("g") = NoOutgoing("g")

\* ------------------------------------------------------------ Normalize
\* x = y * z for fractions, by cross-multiplication.
IsProduct(x, y, z) == x.num * y.den * z.den = y.num * z.num * x.den

\* C20: Normalize(false) on a node whose outgoing weights have the positive
\* sum S replaces every weight w by w / S, so that the new weights sum to 1;
\* on a node without successors it changes nothing; the set of outgoing
\* edges, and every other node, stay as they were.
C20_Normalize ==
    [][\A key \in Keys :
          (last'.op = "Normalize" /\ Normalize("g", key)) =>
              LET node == graphs["g"][key]
                  old == heap[node].successors
                  new == heap'[node].successors
                  S == SumWeights(old, SeqOf(DOMAIN old), 1)
              IN /\ graphs' = graphs
                 /\ DOMAIN heap' = DOMAIN heap
                 /\ \A n \in DOMAIN heap : n # node => heap'[n] = heap[n]
                 /\ heap'[node].key = heap[node].key
                 /\ heap'[node].value = heap[node].value
                 /\ DOMAIN new = DOMAIN old
                 /\ DOMAIN old = {} => heap' = heap
                 /\ DOMAIN old # {} =>
                        /\ S.num > 0
                        /\ \A s \in DOMAIN old : IsProduct(old[s], new[s], S)
                        /\ SumWeights(new, SeqOf(DOMAIN new), 1) = Frac(1, 1)
      ]_vars

\* Normalize has just turned the weights 5 and 1 of a node into 5/6 and 1/6.
C20_Witness ==
    /\ last.op = "Normalize"
    /\ \E n \in Registered("g") :
           {heap[n].successors[s] : s \in DOMAIN heap[n].successors} = {Frac(5, 6), Frac(1, 6)}

\* ------------------------------------------------- export and initGraph
\* Some arc of the GraphIO names a key that is not among its nodes.
NamesUnknownKey(gio) ==
    \E key \in DOMAIN gio.Arcs : \E otherKey \in DOMAIN gio.Arcs[key] :
        key \notin DOMAIN gio.Nodes \/ otherKey \notin DOMAIN gio.Nodes

\* C21: for a graph built with Set and Connect, exportGraph followed by
\* initGraph into an empty graph gives a graph with the same keys, values
\* and edge weights; initGraph returns an error whenever an arc of its
\* GraphIO names a key that is not among the nodes (and none otherwise).
C21_ExportInitRoundTrip ==
    [][/\ (last'.op = "exportGraph, initGraph" /\ ExportInit) =>
                 /\ last'.err = "nil"
                 /\ DOMAIN graphs'["g1"] = DOMAIN graphs["g"]
                 /\ \A k \in DOMAIN graphs["g"] :
                        heap'[graphs'["g1"][k]].value = heap[graphs["g"][k]].value
                 /\ \A from, to \in Keys :
                        IsConnectedIn(heap', graphs'["g1"], from, to) = IsConnected("g", from, to)
                 /\ \A p \in DOMAIN heap : heap'[p] = heap[p]
       /\ \A gio \in GraphIOs :
                 (last'.op = "initGraph" /\ last'.arg = gio /\ InitGraph(gio)) =>
                     /\ NamesUnknownKey(gio) <=> last'.err # "nil"
                     /\ last'.ret <=> last'.err = "nil"
                     /\ DOMAIN graphs'["g2"] = DOMAIN gio.Nodes
      ]_vars

\* initGraph has just rebuilt in g1 a graph of two nodes, one of value 20,
\* with arcs of weight 1 and 2.
C21_Witness ==
    /\ last.op = "exportGraph, initGraph"
    /\ last.err = "nil"
    /\ DOMAIN graphs["g1"] = Keys
    /\ heap[graphs["g1"]["a"]].value.v = 20
    /\ IsConnectedIn(heap, graphs["g1"], "a", "b") = <<TRUE, 2>>
    /\ IsConnectedIn(heap, graphs["g1"], "b", "a") = <<TRUE, 1>>
    /\ IsConnected("g", "a", "b") = <<TRUE, 2>>

\* The registered keys of g, the value of each node and its edges with their
\* weights.
GraphView(h, n) == [k \in DOMAIN n |-> [value |-> h[n[k]].value, successors |-> h[n[k]].successors]]

\* C22: every step of Decode and of ShortestPathWithHeuristic leaves the
\* graph as it was: the registered keys, the value of every node and every
\* edge with its weight, whatever the call then returns.
C22_SearchesLeaveGraph ==
    [][/\ DOMAIN graphs' = DOMAIN graphs
       /\ \A g \in GraphIds : GraphView(heap', graphs'[g]) = GraphView(heap, graphs[g])
      ]_vars

\* Both calls of Decode have returned a token, one of them over two
\* observations.
C22_Witness ==
    /\ dec.calls[1].pc = "done" /\ dec.calls[1].ret # NoToken
    /\ Len(dec.calls[1].obs) = 2 /\ TIndex(dec.calls[1].ret) = 1
    /\ dec.calls[2].pc = "done" /\ dec.calls[2].ret # NoToken

\* One search has returned a path and the other has found none.
SearchesReturned ==
    /\ astar[1].pc = "done" /\ astar[1].exists /\ Len(astar[1].path) > 1
    /\ astar[2].pc = "done" /\ ~astar[2].exists

\* The tokens Decode(obs) can return when no other call touches the decoder.
DecodeAlone(obs) ==
    {maxScore(DecodeRange(dec, ord, <<Token(0, dec.start, NoToken, -1)>>, obs, 0).active) :
        ord \in RangeOrders}

\* The locals a call of ShortestPathWithHeuristic can return with from a.
RECURSIVE SearchAlone(_)
SearchAlone(a) ==
    IF a.pc = "done" THEN {a} ELSE UNION {SearchAlone(b) : b \in LoopTurn(a)}

\* Two searches taking turns return what they return alone.
SearchesIndependent ==
    \A i \in Invocations :
        astar[i].pc = "done" =>
            \E a \in SearchAlone(Search("g", astar[i].startKey, astar[i].endKey, astar[i].heuristic)) :
                a.path = astar[i].path /\ a.exists = astar[i].exists

\* C23: two calls of Decode, or of ShortestPathWithHeuristic, over the same
\* graph taking turns in any order each return what the call returns when it
\* runs alone.
C23_InvocationsIndependent ==
    /\ \A i \in Invocations :
           dec.calls[i].pc = "done" => dec.calls[i].ret \in DecodeAlone(dec.calls[i].obs)
    /\ SearchesIndependent

\* The tokens createToken makes in d.pass(t, idx, o), those of the calls of
\* pass inside it included.
RECURSIVE passTokens(_, _, _, _)
passTokens(d, t, idx, o) ==
    UNION {LET w == heap[TNode(t)].successors[node]
               val == heap[node].value
           IN IF node = d.end
              THEN LET nt == Token(NegInf, node, t, idx) IN {nt} \cup passTokens(d, nt, idx, o)
              ELSE IF val.null
              THEN LET nt == Token(Plus(TScore(t), w), node, t, idx) IN {nt} \cup passTokens(d, nt, idx, o)
              ELSE {Token(Plus(Plus(TScore(t), w), Score(val, o)), node, t, idx)}
          : node \in DOMAIN heap[TNode(t)].successors}

\* The observations a node can score.
ObsValues == {ChainObs[i] : i \in 1..Len(ChainObs)}

\* The candidates of one d.pass(t, idx, o) follow the rules of the step: a
\* candidate at a null node scores its predecessor's score plus the weight
\* of the edge, is not recorded and has a candidate at each successor of its
\* node; a candidate at an emitting node scores the score of o in addition,
\* is recorded for its node and has no candidate after it.  With endDiscarded
\* a candidate at the end node scores -Inf and is passed on like one at a
\* null node, recorded when the end node is emitting.
PassRules(d, ord, t, idx, o, endDiscarded) ==
    \E cands \in {passTokens(d, t, idx, o)} :
    \E hyps \in {pass(d, ord, [node \in GetAll(d.graph) |-> << >>], t, idx, o)} :
        /\ \A s \in DOMAIN heap[TNode(t)].successors : \E c \in cands : TNode(c) = s /\ BT(c) = t
        /\ \A c \in cands :
              LET s == TNode(c)
                  prev == BT(c)
                  w == heap[TNode(prev)].successors[s]
                  val == heap[s].value
                  atEnd == endDiscarded /\ s = d.end
                  recorded == \E j \in 1..Len(hyps[s]) : hyps[s][j] = c
                  passedOn == \A s2 \in DOMAIN heap[s].successors :
                                 \E c2 \in cands : TNode(c2) = s2 /\ BT(c2) = c
                  final == \A c2 \in cands : BT(c2) # c
              IN /\ TIndex(c) = idx
                 /\ s \in DOMAIN heap[TNode(prev)].successors
                 /\ atEnd => TScore(c) = NegInf /\ passedOn /\ (recorded <=> ~val.null)
                 /\ (~atEnd /\ val.null) =>
                        TScore(c) = Plus(TScore(prev), w) /\ passedOn /\ ~recorded
                 /\ (~atEnd /\ ~val.null) =>
                        TScore(c) = Plus(Plus(TScore(prev), w), Score(val, o)) /\ recorded /\ final
        /\ \A s \in GetAll(d.graph) : \A j \in 1..Len(hyps[s]) : hyps[s][j] \in cands

\* The calls of pass of one propagate step on the active tokens of the
\* decoder follow PassRules.
StepRules(endDiscarded) ==
    dec.made =>
        \A i \in 1..Len(dec.active) :
            ~Overflows(dec, dec.active[i]) =>
                \A o \in ObsValues, ord \in RangeOrders :
                    PassRules(dec, ord, dec.active[i], TIndex(dec.active[i]) + 1, o, endDiscarded)

\* C24 as stated: in one propagate step a token passed into a null
\* successor, the end node included, yields a candidate of score
\* t.Score + w that is passed on through the successors of the node; passed
\* into an emitting successor it yields a candidate of score
\* t.Score + w + s.Score(o) that is recorded and not passed on.
C24_PassAsStated == StepRules(FALSE)

\* C24, amended: the same for every successor but the end node; a token
\* passed into the end node yields a candidate of score -Inf that is passed
\* on, and recorded when the end node is emitting.
C24_PassDiscardsEnd == StepRules(TRUE)

\* An active token sits at a node with an edge to the null end node and
\* with an edge to an emitting node.
C24_Witness ==
    /\ dec.made
    /\ last.op = "Decode"
    /\ \E i \in 1..Len(dec.active) :
          LET n == TNode(dec.active[i])
          IN /\ dec.end \in DOMAIN heap[n].successors
             /\ heap[dec.end].value.null
             /\ \E s \in DOMAIN heap[n].successors : ~heap[s].value.null
             /\ ~Overflows(dec, dec.active[i])

\* C25: for a token t returned by Decode over N observations, t.Best()
\* lists the hypothesis in the order of time: the first token is the start
\* token (Index -1, no back pointer), the back pointer of each other token is
\* the token before it, the Index values never decrease, and the tokens of
\* emitting nodes after the first carry the Index values 0, ..., N-1 once
\* each; Labels(true) is the keys of the tokens that are not null, in that
\* order, and Labels(false) the keys of all of them.
C25_BestInTemporalOrder ==
    (last.op = "Decode" /\ last.token # NoToken) =>
        \E h \in {Best(last.token)} :
            LET N == Len(last.obs)
                emitting == SelectSeq(SubSeq(h, 2, Len(h)), LAMBDA t : ~IsNull(t))
                nonNull == SelectSeq(h, LAMBDA t : ~IsNull(t))
            IN /\ Len(h) >= 1
               /\ h[Len(h)] = last.token
               /\ BT(h[1]) = NoToken /\ TIndex(h[1]) = -1 /\ TNode(h[1]) = dec.start
               /\ \A i \in 2..Len(h) : BT(h[i]) = h[i - 1] /\ TIndex(h[i - 1]) <= TIndex(h[i])
               /\ Len(emitting) = N
               /\ \A i \in 1..N : TIndex(emitting[i]) = i - 1
               /\ Labels(h, TRUE) = [i \in 1..Len(nonNull) |-> heap[TNode(nonNull[i])].key]
               /\ Labels(h, FALSE) = [i \in 1..Len(h) |-> heap[TNode(h[i])].key]

\* Decode over two observations has returned a token whose hypothesis
\* begins at a null start node, passes through a second null node and
\* then through two emitting nodes.
C25_Witness ==
    /\ last.op = "Decode"
    /\ last.token # NoToken
    /\ Len(last.obs) = 2
    /\ Labels(Best(last.token), FALSE) = <<"s0", "s1", "s2", "s3">>
    /\ Labels(Best(last.token), TRUE) = <<"s2", "s3">>

\* After d.propagate(idx, o) from the active tokens of the decoder, the
\* active set holds at most one token per node and, for every node with a
\* candidate in d.hyps that counts (all of them, or those of a score above
\* -Inf), the first candidate of the greatest score of that node; every
\* active token is such a candidate.
KeepsBest(all) ==
    (dec.made /\ \A i \in 1..Len(dec.active) : ~Overflows(dec, dec.active[i])) =>
        \A o \in ObsValues, ord \in RangeOrders :
            \E r \in {propagate(dec, ord, dec.active, 0, o)} :
                /\ \A i, j \in 1..Len(r.active) :
                       TNode(r.active[i]) = TNode(r.active[j]) => i = j
                /\ \A i \in 1..Len(r.active) :
                       \E j \in 1..Len(r.hyps[TNode(r.active[i])]) :
                           r.hyps[TNode(r.active[i])][j] = r.active[i]
                /\ \A node \in GetAll(dec.graph) :
                       LET cands == r.hyps[node]
                       IN (\E j \in 1..Len(cands) : all \/ TScore(cands[j]) > NegInf) =>
                              \E i \in 1..Len(r.active), j \in 1..Len(cands) :
                                  /\ r.active[i] = cands[j]
                                  /\ \A k \in 1..Len(cands) : TScore(cands[k]) <= TScore(cands[j])
                                  /\ \A k \in 1..(j - 1) : TScore(cands[k]) < TScore(cands[j])

\* C26: after every propagate step the active set holds at most one token
\* per node, and for each node that received a candidate in the step it
\* holds the candidate of the greatest score of that node, the first of them
\* when scores tie; the other candidates are discarded.
C26_KeepsBestPerNode == KeepsBest(TRUE)

\* The same for the nodes that received a candidate of a score above -Inf.
KeepsBestAboveNegInf == KeepsBest(FALSE)

\* A cycle of null nodes can be reached from the node n through one edge
\* and then through null nodes only.
NullCycleFrom(n) == \E m \in NullClosure(NullSucc(n)) : m \in NullClosure(NullSucc(m))

\* C27: Decode returns on every graph without a cycle of null nodes,
\* whatever its self-loops and cycles through emitting nodes; the recursion
\* of pass does not return exactly when a null self-loop or a cycle of null
\* nodes is reachable from the active token it is called with, and Decode
\* then never returns a token.
C27_DecodeTerminates ==
    (dec.made /\ last.op = "Decode") =>
        /\ ~HasNullCycle("g") => last.err # "stack overflow"
        /\ \A i \in 1..Len(dec.active) : NullCycleFrom(TNode(dec.active[i])) <=> Overflows(dec, dec.active[i])
        /\ last.err = "stack overflow" =>
               /\ Len(last.obs) >= 1
               /\ \E i \in 1..Len(dec.active) : NullCycleFrom(TNode(dec.active[i]))
               /\ last.token = NoToken /\ ~last.ret
        /\ (Len(last.obs) >= 1 /\ NullCycleFrom(dec.start)) => last.err = "stack overflow"

\* Decode has not returned: its start token passed into a null node with a
\* self-loop.
C27_Witness ==
    /\ dec.made
    /\ last.op = "Decode"
    /\ last.err = "stack overflow"
    /\ \E n \in DOMAIN heap[dec.start].successors :
          heap[n].value.null /\ n \in DOMAIN heap[n].successors

\* Decode has returned a token on a graph with a self-loop on an emitting
\* node and no cycle of null nodes.
DecodeReturnedWithLoops ==
    /\ dec.made
    /\ last.op = "Decode"
    /\ last.token # NoToken
    /\ ~HasNullCycle("g")
    /\ \E n \in GetAll("g") : ~heap[n].value.null /\ n \in DOMAIN heap[n].successors

\* One turn of the loop that relaxes the successors of the node current it
\* closes: a closed node keeps its item and is not opened again; an open
\* node that is a successor of current reached at a distance that replaces
\* its known one gets the new item, with current as predecessor, in the open
\* list and in the queue in place of its old item; every other open node
\* keeps its item, its predecessor and its queue entry.  The new distance
\* replaces the known one when it is smaller, or with orEqual also when it
\* is equal.
RelaxationRules(orEqual) ==
    (astar.pc = "loop" /\ astar'.pc = "loop") =>
        \E current \in DOMAIN astar'.closedList \ DOMAIN astar.closedList :
            LET distance == astar'.closedList[current].distanceFromStart
                succs == GetSuccessors(current)
            IN /\ \A n \in DOMAIN astar.closedList :
                      astar'.closedList[n] = astar.closedList[n] /\ n \notin DOMAIN astar'.openList
               /\ \A n \in DOMAIN astar.openList \ {current} :
                      LET old == astar.openList[n]
                          found == distance + succs[n]
                          new == Item(n, current, found, found + astar.heuristic[heap[n].key])
                      IN /\ n \in DOMAIN astar'.openList
                         /\ IF n \in DOMAIN succs
                               /\ (found < old.distanceFromStart
                                   \/ (orEqual /\ found = old.distanceFromStart))
                            THEN /\ astar'.openList[n] = new
                                 /\ new \in astar'.openQueue
                                 /\ old # new => old \notin astar'.openQueue
                            ELSE /\ astar'.openList[n] = old
                                 /\ old \in astar'.openQueue

\* C28 as stated: an open successor keeps its item, predecessor and queue
\* entry when its known distance is at most the new one and is replaced only
\* for a strictly smaller distance; a closed successor is never changed.
C28_RelaxKeepsOnEqual == [][RelaxationRules(FALSE)]_vars

\* C28, amended: an open successor keeps its item only when its known
\* distance is strictly smaller than the new one; it is replaced when the
\* new distance is smaller or equal; a closed successor is never changed.
C28_RelaxReplacesOnEqual == [][RelaxationRules(TRUE)]_vars

\* An open node holds the item of its second predecessor: two closed nodes
\* reach it at the same distance, and the loop is still running.
C28_Witness ==
    /\ astar.pc = "loop"
    /\ \E n \in DOMAIN astar.openList :
       \E p, q \in DOMAIN astar.closedList :
          /\ p # q
          /\ n \in DOMAIN GetSuccessors(p) /\ n \in DOMAIN GetSuccessors(q)
          /\ astar.openList[n].prev = p
          /\ astar.closedList[p].distanceFromStart + GetSuccessors(p)[n] = astar.openList[n].distanceFromStart
          /\ astar.closedList[q].distanceFromStart + GetSuccessors(q)[n] = astar.openList[n].distanceFromStart
          /\ astar.closedList[q].priority < astar.closedList[p].priority

\* The key is not registered in g.
Unregistered(key) == key \notin DOMAIN graphs["g"]

\* C29: ShortestPathWithHeuristic called with a startKey or an endKey that
\* is not registered, or with both, returns exists = false and an empty
\* path.
C29_UnregisteredKeysNoPath ==
    \A i \in Invocations :
        (astar[i].pc = "done" /\ (Unregistered(astar[i].startKey) \/ Unregistered(astar[i].endKey))) =>
            ~astar[i].exists /\ astar[i].path = << >>

\* The same for a call in which exactly one of the two keys is not
\* registered; with both unregistered the path is empty.
OneUnregisteredKeyNoPath ==
    \A i \in Invocations :
        (astar[i].pc = "done" /\ (Unregistered(astar[i].startKey) \/ Unregistered(astar[i].endKey))) =>
            /\ astar[i].path = << >>
            /\ astar[i].exists <=> (Unregistered(astar[i].startKey) /\ Unregistered(astar[i].endKey))

\* The score of the token a call returns, or that it returned nil.
ScoreOf(t) == IF t = NoToken THEN "nil" ELSE TScore(t)

\* C30: every call of Decode starts from one token of score 0 at the start
\* node with Index -1: a call on a decoder that holds the tokens of an
\* earlier call returns a token whose score is that of a decoding of its own
\* observations from the start token, in whatever order the nodes are
\* visited.
C30_DecodeStartsAfresh ==
    (dec.made /\ last.op = "Decode" /\ last.err # "stack overflow") =>
        /\ \A ord \in RangeOrders :
               ScoreOf(maxScore(DecodeRange(dec, ord, <<Token(0, dec.start, NoToken, -1)>>,
                                            last.obs, 0).active)) = ScoreOf(last.token)
        /\ last.token # NoToken =>
               Backtrace(last.token, << >>)[Len(last.token)] = <<[Score |-> 0, Node |-> dec.start, Index |-> -1]>>

\* A call of Decode over one observation, on a decoder that held the tokens
\* of an earlier call, has returned a token.
C30_Witness ==
    /\ dec.made
    /\ last.op = "Decode"
    /\ last.arg = TRUE
    /\ Len(last.obs) = 1
    /\ last.token # NoToken
    /\ TIndex(last.token) = 0

====
